---- MODULE Spec2Model ----
(***************************************************************************)
(* State-machine model of the WhatsApp service bot: the webhook handler,   *)
(* the message controller, the payment controller and the JSON file store. *)
(*                                                                         *)
(* JavaScript objects are TLA+ records; an absent property is a name that  *)
(* is not in the record's DOMAIN.  Texts that the code normalises          *)
(* (toLowerCase, trim) are sequences of one-character strings, so that     *)
(* normalisation is computed rather than assumed.  Every handler is one    *)
(* action: requests are handled one at a time in this specification.       *)
(* Express populates req.body with an object ({} when the request has no   *)
(* body), which is what handleSuccess relies on.                           *)
(***************************************************************************)
EXTENDS Integers, Sequences, FiniteSets, TLC

VARIABLES
    users,      \* contents of data/users.json    (a list of records)
    orders,     \* contents of data/orders.json
    sessions,   \* contents of data/sessions.json
    env,        \* process.env, fixed at start-up
    now,        \* the clock: the number of requests handled so far
    req,        \* the request handled last
    sent,       \* the sendMessage calls made while handling req, in order
    io,         \* the number of file reads and writes made while handling req
    tasks,      \* handler runs in flight (used when requests overlap)
    resp        \* the HTTP responses written while handling req, in order

vars == <<users, orders, sessions, env, now, req, sent, io, tasks, resp>>

-----------------------------------------------------------------------------
(* Bounds of the model *)

MaxEvents == 3
MaxOrders == 2

-----------------------------------------------------------------------------
(* JavaScript helpers *)

\* {...a, ...b}: the properties of b overwrite those of a
Spread(a, b) ==
    [k \in (DOMAIN a) \cup (DOMAIN b) |-> IF k \in DOMAIN b THEN b[k] ELSE a[k]]

Has(obj, k) == k \in DOMAIN obj

\* the JavaScript value null / undefined where an object was expected
Null == [isNull |-> TRUE]
IsNull(v) == Has(v, "isNull")

\* Date.now() / new Date().toISOString(): an opaque value no handler reads
Timestamp == now

\* Array.prototype.findIndex, 0 for -1
RECURSIVE FindIndexFrom(_, _, _, _)
FindIndexFrom(list, key, val, i) ==
    IF i > Len(list) THEN 0
    ELSE IF Has(list[i], key) /\ list[i][key] = val THEN i
    ELSE FindIndexFrom(list, key, val, i + 1)

FindIndex(list, key, val) == FindIndexFrom(list, key, val, 1)

UpperToLower ==
    "A" :> "a" @@ "B" :> "b" @@ "C" :> "c" @@ "D" :> "d" @@ "E" :> "e" @@
    "F" :> "f" @@ "G" :> "g" @@ "H" :> "h" @@ "I" :> "i" @@ "J" :> "j" @@
    "K" :> "k" @@ "L" :> "l" @@ "M" :> "m" @@ "N" :> "n" @@ "O" :> "o" @@
    "P" :> "p" @@ "Q" :> "q" @@ "R" :> "r" @@ "S" :> "s" @@ "T" :> "t" @@
    "U" :> "u" @@ "V" :> "v" @@ "W" :> "w" @@ "X" :> "x" @@ "Y" :> "y" @@
    "Z" :> "z"

\* String.prototype.toLowerCase
\* a normalisation that leaves the letters as typed
ToLowerCase_none(s) == s

ToLowerCase(s) ==
    [i \in 1..Len(s) |-> IF s[i] \in DOMAIN UpperToLower THEN UpperToLower[s[i]] ELSE s[i]]

WhiteSpace == {" ", "\t", "\n"}

RECURSIVE TrimStart(_)
TrimStart(s) ==
    IF s # <<>> /\ Head(s) \in WhiteSpace THEN TrimStart(Tail(s)) ELSE s

RECURSIVE TrimEnd(_)
TrimEnd(s) ==
    IF s # <<>> /\ s[Len(s)] \in WhiteSpace THEN TrimEnd(SubSeq(s, 1, Len(s) - 1)) ELSE s

\* String.prototype.trim
\* a normalisation that leaves the surrounding whitespace in place
Trim_none(s) == s

Trim(s) == TrimStart(TrimEnd(s))

-----------------------------------------------------------------------------
(* A world is the part of the state a handler reads and writes while it    *)
(* runs: the three files, the sends made so far, the outcome the network   *)
(* gives to the sends of this request, and whether an exception is         *)
(* propagating.                                                            *)

World(us, os, ss, net) ==
    [users |-> us, orders |-> os, sessions |-> ss, sent |-> <<>>, resp |-> <<>>,
     net |-> net, threw |-> FALSE, io |-> 0]

\* readFile and writeFile: each call is one access to a JSON file
readFile(w) == [w EXCEPT !.io = @ + 1]
writeFile(w) == [w EXCEPT !.io = @ + 1]

-----------------------------------------------------------------------------
(* database.service.js *)

OrderIdPool == <<"ORD_1", "ORD_2", "ORD_3", "ORD_4", "ORD_5", "ORD_6">>

\* `ORD_${Date.now()}_${random}`: an identifier no stored order carries
NewOrderId(w) == OrderIdPool[Len(w.orders) + 1]

createUser(w, userData) ==
    LET newUser == Spread(Spread([id |-> Len(w.users) + 1], userData),
                          [createdAt |-> Timestamp, updatedAt |-> Timestamp])
    IN  writeFile(readFile([w EXCEPT !.users = Append(@, newUser)]))

findUserByWhatsappId(w, whatsappId) == FindIndex(w.users, "whatsappId", whatsappId)

updateUser(w, whatsappId, updates) ==
    LET userIndex == FindIndex(w.users, "whatsappId", whatsappId)
    IN  IF userIndex = 0 THEN readFile(w)
        ELSE writeFile(readFile([w EXCEPT !.users[userIndex] =
                 Spread(Spread(@, updates), [updatedAt |-> Timestamp])]))

upsertUser(w, whatsappId, userData) ==
    IF findUserByWhatsappId(w, whatsappId) # 0
    THEN updateUser(readFile(w), whatsappId, userData)
    ELSE createUser(readFile(w), Spread([whatsappId |-> whatsappId], userData))

\* the new order is the last element of the resulting orders list
createOrder(w, orderData) ==
    LET newOrder ==
            Spread(Spread([id |-> Len(w.orders) + 1,
                           orderId |-> IF Has(orderData, "orderId")
                                       THEN orderData.orderId ELSE NewOrderId(w)],
                          orderData),
                   [createdAt |-> Timestamp, updatedAt |-> Timestamp,
                    status |-> "pending", paymentStatus |-> "pending"])
    IN  writeFile(readFile([w EXCEPT !.orders = Append(@, newOrder)]))

\* a lookup that settles for the first order on file
findOrderByOrderId_first(w, orderId) == IF Len(w.orders) > 0 THEN 1 ELSE 0

findOrderByOrderId(w, orderId) == FindIndex(w.orders, "orderId", orderId)

\* an update that also resets the amount of the order
updateOrder_reset(w, orderId, updates) ==
    LET orderIndex == FindIndex(w.orders, "orderId", orderId)
    IN  IF orderIndex = 0 THEN readFile(w)
        ELSE writeFile(readFile([w EXCEPT !.orders[orderIndex] =
                 Spread(Spread(@, updates), [updatedAt |-> Timestamp, amount |-> 0])]))

\* an update that leaves paymentStatus as it is on file
updateOrder_statusOnly(w, orderId, updates) ==
    LET orderIndex == FindIndex(w.orders, "orderId", orderId)
    IN  IF orderIndex = 0 THEN readFile(w)
        ELSE writeFile(readFile([w EXCEPT !.orders[orderIndex] =
                 Spread(Spread(@, [k \in DOMAIN updates \ {"paymentStatus"} |-> updates[k]]),
                        [updatedAt |-> Timestamp])]))

updateOrder(w, orderId, updates) ==
    LET orderIndex == FindIndex(w.orders, "orderId", orderId)
    IN  IF orderIndex = 0 THEN readFile(w)
        ELSE writeFile(readFile([w EXCEPT !.orders[orderIndex] =
                 Spread(Spread(@, updates), [updatedAt |-> Timestamp])]))

createSession(w, sessionData) ==
    LET newSession == Spread(Spread([id |-> Len(w.sessions) + 1], sessionData),
                             [createdAt |-> Timestamp, updatedAt |-> Timestamp])
    IN  writeFile(readFile([w EXCEPT !.sessions = Append(@, newSession)]))

\* a lookup that settles for the first session on file
findSessionByWhatsappId_first(w, whatsappId) == IF Len(w.sessions) > 0 THEN 1 ELSE 0

findSessionByWhatsappId(w, whatsappId) == FindIndex(w.sessions, "whatsappId", whatsappId)

\* a merge in which the stored fields win over the updates
updateSession_keep(w, whatsappId, updates) ==
    LET sessionIndex == FindIndex(w.sessions, "whatsappId", whatsappId)
    IN  IF sessionIndex = 0 THEN readFile(w)
        ELSE writeFile(readFile([w EXCEPT !.sessions[sessionIndex] =
                 Spread(Spread(updates, @), [updatedAt |-> Timestamp])]))

updateSession(w, whatsappId, updates) ==
    LET sessionIndex == FindIndex(w.sessions, "whatsappId", whatsappId)
    IN  IF sessionIndex = 0 THEN readFile(w)
        ELSE writeFile(readFile([w EXCEPT !.sessions[sessionIndex] =
                 Spread(Spread(@, updates), [updatedAt |-> Timestamp])]))

createOrUpdateSession(w, whatsappId, sessionData) ==
    IF findSessionByWhatsappId(w, whatsappId) # 0
    THEN updateSession(readFile(w), whatsappId, sessionData)
    ELSE createSession(readFile(w), sessionData)

-----------------------------------------------------------------------------
(* whatsapp.service.js *)

\* constructor: a token that is set, holds no "test" and is not the placeholder
PlaceholderToken == "your_whatsapp_access_token_here"
TokensHoldingTest == {"my_test_token"}

hasRealCredentials ==
    /\ Has(env, "WHATSAPP_ACCESS_TOKEN")
    /\ env.WHATSAPP_ACCESS_TOKEN # ""
    /\ env.WHATSAPP_ACCESS_TOKEN \notin TokensHoldingTest
    /\ env.WHATSAPP_ACCESS_TOKEN # PlaceholderToken

\* axios.post resolves: the platform answers 2xx.  The network of a request
\* is up, or fails every send ("down", "http_401", "timeout"), or fails the
\* first send of the request only ("flaky")
Answers2xx(w) == w.net = "up" \/ (w.net = "flaky" /\ Len(w.sent) > 0)

\* what the catch block of sendMessage returns
TestFallback(error) == [error |-> error, test_fallback |-> TRUE, mock_id |-> <<"mock", Timestamp>>]

\* One call of sendMessage, recorded in sent with what it returned, whether
\* axios.post was called, and the number of file accesses the request had
\* made before the call.  The body is one try block: the throw for
\* a missing phone number id and a rejected axios.post (no connection, a
\* status outside 2xx, the 10 s timeout) end in the catch block, which
\* returns a value.
\* a sendMessage whose catch block throws the error on to the caller
sendMessage_rethrow(w, to, message) ==
    IF ~hasRealCredentials
    THEN [w EXCEPT !.sent = Append(@, [to |-> to, message |-> message, result |-> "would_send",
                                        posted |-> FALSE, io |-> w.io,
                                        returned |-> [error |-> "Missing WhatsApp credentials",
                                                      test_mode |-> TRUE,
                                                      would_send |-> message]])]
    ELSE IF ~Has(env, "WHATSAPP_PHONE_NUMBER_ID")
    THEN [w EXCEPT !.threw = TRUE]
    ELSE IF Answers2xx(w)
    THEN [w EXCEPT !.sent = Append(@, [to |-> to, message |-> message, result |-> "delivered",
                                        posted |-> TRUE, io |-> w.io,
                                        returned |-> [messaging_product |-> "whatsapp",
                                                      messages |-> <<[id |-> <<"wamid", Timestamp>>]>>]])]
    ELSE [w EXCEPT !.threw = TRUE,
                   !.sent = Append(@, [to |-> to, message |-> message, result |-> "test_fallback",
                                       posted |-> TRUE, io |-> w.io, returned |-> Null])]

sendMessage(w, to, message) ==
    IF ~hasRealCredentials
    THEN [w EXCEPT !.sent = Append(@, [to |-> to, message |-> message, result |-> "would_send",
                                        posted |-> FALSE, io |-> w.io,
                                        returned |-> [error |-> "Missing WhatsApp credentials",
                                                      test_mode |-> TRUE,
                                                      would_send |-> message]])]
    ELSE IF ~Has(env, "WHATSAPP_PHONE_NUMBER_ID")
    THEN [w EXCEPT !.sent = Append(@, [to |-> to, message |-> message, result |-> "test_fallback",
                                        posted |-> FALSE, io |-> w.io,
                                        returned |-> TestFallback("WhatsApp credentials not configured")])]
    ELSE IF Answers2xx(w)
    THEN [w EXCEPT !.sent = Append(@, [to |-> to, message |-> message, result |-> "delivered",
                                        posted |-> TRUE, io |-> w.io,
                                        returned |-> [messaging_product |-> "whatsapp",
                                                      messages |-> <<[id |-> <<"wamid", Timestamp>>]>>]])]
    ELSE [w EXCEPT !.sent = Append(@, [to |-> to, message |-> message, result |-> "test_fallback",
                                        posted |-> TRUE, io |-> w.io,
                                        returned |-> TestFallback(w.net)])]

sendTextMessage(w, to, text) ==
    sendMessage(w, to, [type |-> "text", text |-> [body |-> text]])

\* a payment link that goes out only when the send before it went through
sendPaymentLink_afterDelivery(w, to, orderDetails) ==
    IF w.sent # <<>> /\ w.sent[Len(w.sent)].result = "test_fallback" THEN w
    ELSE sendTextMessage(w, to, Spread([tpl |-> "Payment Required"], orderDetails))

sendPaymentLink(w, to, orderDetails) ==
    sendTextMessage(w, to, Spread([tpl |-> "Payment Required"], orderDetails))

-----------------------------------------------------------------------------
(* welcome.template.js *)

welcomeMessage ==
    [type |-> "interactive",
     interactive |->
        [type |-> "button",
         header |-> [type |-> "text", text |-> "Welcome to Land Record Services"],
         body |-> [text |-> "Hello! I'm here to help you with land record services."],
         action |-> [buttons |->
            << [type |-> "reply", reply |-> [id |-> "8a_service", title |-> "8A Form"]],
               [type |-> "reply", reply |-> [id |-> "712_service", title |-> "7/12 Form"]],
               [type |-> "reply", reply |-> [id |-> "ferfar_service", title |-> "Ferfar"]],
               [type |-> "reply", reply |-> [id |-> "property_card_service",
                                             title |-> "Property Card"]] >>]]]

-----------------------------------------------------------------------------
(* message.controller.js *)

\* the string literals handleMessage compares the normalised text with
KwHi == <<"h", "i">>
KwHello == <<"h", "e", "l", "l", "o">>
KwStart == <<"s", "t", "a", "r", "t">>
Kw8aService == <<"8", "a", "_", "s", "e", "r", "v", "i", "c", "e">>
Kw8a == <<"8", "a">>
Kw8aForm == <<"8", "a", " ", "f", "o", "r", "m">>
Kw712Service == <<"7", "1", "2", "_", "s", "e", "r", "v", "i", "c", "e">>
Kw712 == <<"7", "1", "2">>
Kw7Slash12 == <<"7", "/", "1", "2">>
KwFerfarService == <<"f", "e", "r", "f", "a", "r", "_", "s", "e", "r", "v", "i", "c", "e">>
KwFerfar == <<"f", "e", "r", "f", "a", "r">>
KwPropertyCardService == <<"p", "r", "o", "p", "e", "r", "t", "y", "_", "c", "a", "r", "d", "_", "s", "e", "r", "v", "i", "c", "e">>
KwProperty == <<"p", "r", "o", "p", "e", "r", "t", "y">>
KwPropertyCard == <<"p", "r", "o", "p", "e", "r", "t", "y", " ", "c", "a", "r", "d">>

\* the value undefined where a string is expected
Undefined == <<"<undefined>">>

\* JSON.stringify leaves out a property whose value is undefined
DropUndefined(rec) ==
    IF Has(rec, "lastMessage") /\ rec.lastMessage = Undefined
    THEN [k \in (DOMAIN rec) \ {"lastMessage"} |-> rec[k]]
    ELSE rec

\* a price table that has lost its entries: every service costs the default
getServiceAmount_default(serviceName) == 100

\* the own properties of the object literal amounts
amounts ==
    [s \in {"8A Form", "7/12 Form", "Ferfar", "Property Card"} |->
        CASE s = "8A Form" -> 500
          [] s = "7/12 Form" -> 300
          [] s = "Ferfar" -> 400
          [] OTHER -> 250]

\* names that every object literal inherits from Object.prototype; looking
\* one up yields a function or an object, which is truthy
ObjectPrototypeKeys ==
    {"constructor", "toString", "toLocaleString", "valueOf", "hasOwnProperty",
     "isPrototypeOf", "propertyIsEnumerable", "__proto__"}

\* amounts[serviceName] || 100
getServiceAmount(serviceName) ==
    IF serviceName \in DOMAIN amounts THEN amounts[serviceName]
    ELSE IF serviceName \in ObjectPrototypeKeys THEN [inherited |-> serviceName]
    ELSE 100

FlowIds ==
    [s \in {"8a_service", "712_service", "ferfar_service", "property_card_service"} |->
        CASE s = "8a_service" ->
                 IF Has(env, "WHATSAPP_FLOW_ID_8A") THEN env.WHATSAPP_FLOW_ID_8A ELSE "1234567890"
          [] s = "712_service" ->
                 IF Has(env, "WHATSAPP_FLOW_ID_712") THEN env.WHATSAPP_FLOW_ID_712 ELSE "1234567891"
          [] s = "ferfar_service" ->
                 IF Has(env, "WHATSAPP_FLOW_ID_FERFAR") THEN env.WHATSAPP_FLOW_ID_FERFAR ELSE "1234567892"
          [] OTHER ->
                 IF Has(env, "WHATSAPP_FLOW_ID_PROPERTY") THEN env.WHATSAPP_FLOW_ID_PROPERTY ELSE "1234567893"]

buildFlowMessage(serviceId, serviceName) ==
    [type |-> "interactive",
     interactive |->
        [type |-> "flow",
         header |-> [type |-> "text", text |-> serviceName],
         body |-> [text |-> "Please fill out the form to proceed with your application.",
                   serviceName |-> serviceName],
         footer |-> [text |-> "Your data is secure and encrypted."],
         action |-> [name |-> "flow",
                     parameters |-> [flow_message_version |-> "3",
                                     flow_action |-> "navigate",
                                     flow_id |-> FlowIds[serviceId],
                                     flow_cta |-> "Start Form",
                                     flow_token |-> <<"token", Timestamp, serviceId>>]]]]

\* a trigger that is sent once more when the send fails
triggerServiceFlow_retry(w, whatsappId, serviceId, serviceName) ==
    LET w1 == createOrUpdateSession(w, whatsappId,
                  [whatsappId |-> whatsappId,
                   step |-> "awaiting_flow_completion",
                   selectedService |-> serviceId,
                   serviceName |-> serviceName,
                   createdAt |-> Timestamp])
        w2 == sendMessage(w1, whatsappId, buildFlowMessage(serviceId, serviceName))
    IN  IF w2.sent[Len(w2.sent)].result = "test_fallback"
        THEN sendMessage(w2, whatsappId, buildFlowMessage(serviceId, serviceName))
        ELSE w2

triggerServiceFlow(w, whatsappId, serviceId, serviceName) ==
    LET w1 == createOrUpdateSession(w, whatsappId,
                  [whatsappId |-> whatsappId,
                   step |-> "awaiting_flow_completion",
                   selectedService |-> serviceId,
                   serviceName |-> serviceName,
                   createdAt |-> Timestamp])
    IN  sendMessage(w1, whatsappId, buildFlowMessage(serviceId, serviceName))

HelpText == [tpl |-> "I didn't understand that. Type \"hi\" to see available services."]
ErrorText == [tpl |-> "Sorry, I encountered an error. Please try again or send \"hi\" to restart."]

handleMessage(w, from, messageText) ==
    LET w1 == upsertUser(w, from,
                  DropUndefined([whatsappId |-> from, phoneNumber |-> from,
                                 lastSeen |-> Timestamp, lastMessage |-> messageText]))
    IN  IF messageText = Undefined
        THEN \* undefined.toLowerCase() throws inside the try: the catch answers
             sendTextMessage(w1, from, ErrorText)
        ELSE LET text == Trim(ToLowerCase(messageText))
             IN  IF text = KwHi \/ text = KwHello \/ text = KwStart
                 THEN sendMessage(w1, from, welcomeMessage)
                 ELSE IF text = Kw8aService \/ text = Kw8a \/ text = Kw8aForm
                 THEN triggerServiceFlow(w1, from, "8a_service", "8A Form")
                 ELSE IF text = Kw712Service \/ text = Kw712 \/ text = Kw7Slash12
                 THEN triggerServiceFlow(w1, from, "712_service", "7/12 Form")
                 ELSE IF text = KwFerfarService \/ text = KwFerfar
                 THEN triggerServiceFlow(w1, from, "ferfar_service", "Ferfar")
                 ELSE IF text = KwPropertyCardService \/ text = KwProperty
                         \/ text = KwPropertyCard
                 THEN triggerServiceFlow(w1, from, "property_card_service", "Property Card")
                 ELSE sendTextMessage(w1, from, HelpText)

ExpiredText == [tpl |-> "Session expired. Please start over by sending \"hi\"."]

handleFlowCompletion(w, whatsappId, flowToken, flowData) ==
    LET si == findSessionByWhatsappId(w, whatsappId)
    IN  IF si = 0
        THEN sendTextMessage(readFile(w), whatsappId, ExpiredText)
        ELSE LET session == w.sessions[si]
                 w1 == createOrder(readFile(w), [orderId |-> NewOrderId(w),
                                       whatsappId |-> whatsappId,
                                       serviceType |-> session.serviceName,
                                       userData |-> flowData,
                                       amount |-> getServiceAmount(session.serviceName),
                                       status |-> "pending",
                                       paymentStatus |-> "pending",
                                       createdAt |-> Timestamp])
                 order == w1.orders[Len(w1.orders)]
                 w2 == createOrUpdateSession(w1, whatsappId,
                           Spread(session, [step |-> "awaiting_payment",
                                            orderId |-> order.orderId]))
                 paymentLink == <<"/payment/checkout", order.orderId, whatsappId>>
                 w3 == sendTextMessage(w2, whatsappId,
                           [tpl |-> "Thank you for filling the form!",
                            orderId |-> order.orderId,
                            service |-> session.serviceName,
                            amount |-> order.amount])
             IN  sendPaymentLink(w3, whatsappId,
                     [orderId |-> order.orderId, service |-> session.serviceName,
                      amount |-> order.amount, paymentLink |-> paymentLink])

-----------------------------------------------------------------------------
(* webhook.controller.js *)

\* A JSON array is Arr(items); IsArray is Array.isArray
Arr(items) == [arr |-> items]
IsArray(v) == Has(v, "arr")

\* res.status(status).send(text) / res.sendStatus(status) / res.status(status).json(obj);
\* body is [text |-> ...], [json |-> ...] or [html |-> <title>]
\* a response that is also appended to an access log on disk
Respond_logged(w, status, body) ==
    writeFile([w EXCEPT !.resp = Append(@, [status |-> status, body |-> body])])

Respond(w, status, body) == [w EXCEPT !.resp = Append(@, [status |-> status, body |-> body])]

\* the response_json of a form that was opened from a form trigger: WhatsApp
\* returns the trigger's flow_token, `token_${Date.now()}_${serviceId}`, in it.
\* The strings for the triggers of two services at the first four instants:
FlowTokenJson ==
    "8a_service" :> <<"{\"flow_token\":\"token_0_8a_service\"}",
                      "{\"flow_token\":\"token_1_8a_service\"}",
                      "{\"flow_token\":\"token_2_8a_service\"}",
                      "{\"flow_token\":\"token_3_8a_service\"}">>
    @@ "712_service" :> <<"{\"flow_token\":\"token_0_712_service\"}",
                          "{\"flow_token\":\"token_1_712_service\"}",
                          "{\"flow_token\":\"token_2_712_service\"}",
                          "{\"flow_token\":\"token_3_712_service\"}">>

FlowTokens ==
    {<<"token", t - 1, s>> : t \in 1..4, s \in DOMAIN FlowTokenJson}

\* JSON.stringify of the response that returns token tok
ResponseJsonWith(tok) == FlowTokenJson[tok[3]][tok[2] + 1]

\* JSON.parse on the response_json strings of the model; anything else throws
JsonObjects ==
    "{\"name\":\"John\"}" :> [name |-> "John"] @@ "{}" :> <<>>
    @@ [j \in {ResponseJsonWith(tok) : tok \in FlowTokens} |->
           [flow_token |-> CHOOSE tok \in FlowTokens : ResponseJsonWith(tok) = j]]

\* a parser that gives null for a string it cannot parse
parseFlowResponse_null(responseJson) ==
    IF responseJson \in DOMAIN JsonObjects THEN JsonObjects[responseJson] ELSE Null

parseFlowResponse(responseJson) ==
    IF responseJson \in DOMAIN JsonObjects THEN JsonObjects[responseJson] ELSE <<>>

\* the text of the capability notice
\* a notice that repeats the help text
UnsupportedText_help == HelpText

UnsupportedText ==
    [tpl |-> "I can only process text messages and forms right now. Please send \"hi\" to start."]

\* the body of the loop of handleIncomingMessages for a message that is an
\* object: the try block with its catch, which swallows what the block throws
processMessage(w, message) ==
    LET type == IF Has(message, "type") THEN message.type ELSE "undefined"
    IN  IF type = "text"
        THEN IF ~Has(message, "text") THEN w
             ELSE handleMessage(w, message.from,
                      IF Has(message.text, "body") THEN message.text.body ELSE Undefined)
        ELSE IF type = "interactive"
        THEN LET interactive == IF Has(message, "interactive") THEN message.interactive ELSE <<>>
                 buttonId == IF Has(interactive, "button_reply") /\ Has(interactive.button_reply, "id")
                             THEN interactive.button_reply.id ELSE <<>>
                 listId == IF Has(interactive, "list_reply") /\ Has(interactive.list_reply, "id")
                           THEN interactive.list_reply.id ELSE <<>>
                 replyId == IF buttonId # <<>> THEN buttonId ELSE listId
                 flowResponse == IF Has(interactive, "nfm_reply")
                                    /\ Has(interactive.nfm_reply, "response_json")
                                 THEN interactive.nfm_reply.response_json ELSE ""
             IN  IF flowResponse # ""
                 THEN handleFlowCompletion(w, message.from, flowResponse,
                                           parseFlowResponse(flowResponse))
                 ELSE IF replyId # <<>>
                 THEN handleMessage(w, message.from, replyId)
                 ELSE w
        ELSE IF type = "button"
        THEN IF ~Has(message, "button") THEN w
             ELSE handleMessage(w, message.from,
                      IF Has(message.button, "text") THEN message.button.text ELSE Undefined)
        ELSE sendTextMessage(w, message.from, UnsupportedText)

\* the loop of handleIncomingMessages from message i on; reading message.from
\* of a null message throws before the try block is entered
RECURSIVE handleIncomingMessagesFrom(_, _, _)
handleIncomingMessagesFrom(w, messages, i) ==
    IF i > Len(messages) THEN w
    ELSE IF IsNull(messages[i]) THEN [w EXCEPT !.threw = TRUE]
    ELSE handleIncomingMessagesFrom(processMessage(w, messages[i]), messages, i + 1)

\* a loop that takes the records of a delivery last first
handleIncomingMessages_lastFirst(w, value) ==
    LET messages == value.messages.arr
    IN  handleIncomingMessagesFrom(w,
            [k \in 1..Len(messages) |-> messages[Len(messages) + 1 - k]], 1)

handleIncomingMessages(w, value) == handleIncomingMessagesFrom(w, value.messages.arr, 1)

\* logs only; reading status.id of a null status throws
handleStatusUpdates(w, value) ==
    IF \E i \in 1..Len(value.statuses.arr) : IsNull(value.statuses.arr[i])
    THEN [w EXCEPT !.threw = TRUE] ELSE w

\* logs only; reading error.code of a null error throws
handleErrors(w, value) ==
    LET errors == IF IsArray(value.errors) THEN value.errors.arr ELSE <<value.errors>>
    IN  IF \E i \in 1..Len(errors) : IsNull(errors[i])
        THEN [w EXCEPT !.threw = TRUE] ELSE w

handleChange(w, change) ==
    IF IsNull(change) \/ ~Has(change, "value") \/ IsNull(change.value) THEN w
    ELSE LET value == change.value
         IN  IF Has(value, "messages") /\ IsArray(value.messages)
             THEN handleIncomingMessages(w, value)
             ELSE IF Has(value, "statuses") /\ IsArray(value.statuses)
             THEN handleStatusUpdates(w, value)
             ELSE IF Has(value, "errors") /\ ~IsNull(value.errors)
             THEN handleErrors(w, value)
             ELSE w

RECURSIVE handleChangesFrom(_, _, _)
handleChangesFrom(w, changes, i) ==
    IF i > Len(changes) \/ w.threw THEN w
    ELSE handleChangesFrom(handleChange(w, changes[i]), changes, i + 1)

RECURSIVE handleEntriesFrom(_, _, _)
handleEntriesFrom(w, entryList, i) ==
    IF i > Len(entryList) \/ w.threw THEN w
    ELSE LET entry == entryList[i]
         IN  IF IsNull(entry) \/ ~Has(entry, "changes") \/ ~IsArray(entry.changes)
             THEN handleEntriesFrom(w, entryList, i + 1)
             ELSE handleEntriesFrom(handleChangesFrom(w, entry.changes.arr, 1), entryList, i + 1)

EventReceived == "EVENT_RECEIVED"

\* a catch block that reports the failure to the caller
handleWebhook_500(w, body) ==
    IF IsNull(body) \/ ~Has(body, "entry") \/ ~IsArray(body.entry)
    THEN Respond(w, 200, [text |-> EventReceived])
    ELSE LET w1 == handleEntriesFrom(w, body.entry.arr, 1)
         IN  IF w1.threw
             THEN Respond([w1 EXCEPT !.threw = FALSE], 500, [text |-> "Internal Server Error"])
             ELSE Respond(w1, 200, [text |-> EventReceived])

handleWebhook(w, body) ==
    IF IsNull(body) \/ ~Has(body, "entry") \/ ~IsArray(body.entry)
    THEN Respond(w, 200, [text |-> EventReceived])
    ELSE LET w1 == handleEntriesFrom(w, body.entry.arr, 1)
         IN  IF w1.threw
             THEN Respond([w1 EXCEPT !.threw = FALSE], 200, [text |-> EventReceived])
             ELSE Respond(w1, 200, [text |-> EventReceived])

\* process.env.VERIFY_TOKEN, undefined when it is not set; a query parameter
\* that is missing is undefined as well, and undefined === undefined
EnvVerifyToken == IF Has(env, "VERIFY_TOKEN") THEN env.VERIFY_TOKEN ELSE "<undefined>"
QueryParam(query, k) == IF Has(query, k) THEN query[k] ELSE "<undefined>"

\* a handshake that checks the token and forgets the mode
verify_anyMode(w, query) ==
    LET token == QueryParam(query, "hub.verify_token")
        challenge == QueryParam(query, "hub.challenge")
    IN  IF token = EnvVerifyToken
        THEN Respond(w, 200, [text |-> challenge])
        ELSE Respond(w, 403, [text |-> "Forbidden"])

verify(w, query) ==
    LET mode == QueryParam(query, "hub.mode")
        token == QueryParam(query, "hub.verify_token")
        challenge == QueryParam(query, "hub.challenge")
    IN  IF mode = "subscribe" /\ token = EnvVerifyToken
        THEN Respond(w, 200, [text |-> challenge])
        ELSE Respond(w, 403, [text |-> "Forbidden"])

-----------------------------------------------------------------------------
(* payment.controller.js *)

\* "accept all in test mode": the body of the try block returns true
verifyPaymentSignature(orderId, paymentId, signature) == TRUE

sendPaymentConfirmation(w, whatsappId, order) ==
    sendTextMessage(w, whatsappId,
        [tpl |-> "Payment Successful!", orderId |-> order.orderId,
         service |-> order.serviceType, amount |-> order.amount])

\* what handleFailure writes to the order
FailedUpdates ==
    [status |-> "failed", paymentStatus |-> "failed", failedAt |-> Timestamp]

\* a failure handler that insists on an orderId
handleFailure_strict(w, query) ==
    LET orderId == QueryParam(query, "orderId")
    IN  IF orderId \in {"<undefined>", ""}
        THEN Respond(w, 400, [json |-> [error |-> "Missing orderId"]])
        ELSE LET w0 == updateOrder(w, orderId, FailedUpdates)
                 oi == findOrderByOrderId(w0, orderId)
                 w1 == IF oi # 0
                       THEN sendTextMessage(readFile(w0), w0.orders[oi].whatsappId,
                                [tpl |-> "Payment failed for order", orderId |-> orderId])
                       ELSE readFile(w0)
             IN  Respond(w1, 200, [html |-> "Payment Failed"])

handleFailure(w, query) ==
    LET orderId == QueryParam(query, "orderId")
        w1 == IF orderId \notin {"<undefined>", ""}
              THEN LET w0 == updateOrder(w, orderId, FailedUpdates)
                       oi == findOrderByOrderId(w0, orderId)
                   IN  IF oi # 0
                       THEN sendTextMessage(readFile(w0), w0.orders[oi].whatsappId,
                                [tpl |-> "Payment failed for order", orderId |-> orderId])
                       ELSE readFile(w0)
              ELSE w
    IN  Respond(w1, 200, [html |-> "Payment Failed"])

\* the catch block of handleSuccess, which hands the request to handleFailure
\* a catch block that lets the error go on to the framework
handleSuccessCatch_rethrow(w, query) == [w EXCEPT !.threw = TRUE]

handleSuccessCatch(w, query) == handleFailure(w, query)

\* const { mock } = req.body throws inside the try block when req.body is
\* undefined
handleSuccess(w, query, body) ==
    LET orderId == QueryParam(query, "orderId")
        paymentId == QueryParam(query, "paymentId")
        hasPaymentId == paymentId \notin {"<undefined>", ""}
        hasSignature == Has(query, "signature")
        mock == QueryParam(body, "mock")
        oi == findOrderByOrderId(w, orderId)
    IN  IF IsNull(body)
        THEN handleSuccessCatch(w, query)
        ELSE IF orderId \in {"<undefined>", ""}
        THEN Respond(w, 400, [json |-> [error |-> "Missing orderId"]])
        ELSE IF oi = 0
        THEN Respond(readFile(w), 404, [json |-> [error |-> "Order not found"]])
        ELSE LET order == w.orders[oi]
             IN  IF mock = "true"
                 THEN LET w1 == updateOrder(readFile(w), orderId,
                                   [status |-> "completed", paymentStatus |-> "captured",
                                    paymentId |-> IF hasPaymentId THEN paymentId ELSE "mock_<now>",
                                    completedAt |-> Timestamp])
                          w2 == sendPaymentConfirmation(w1, order.whatsappId, order)
                      IN  Respond(w2, 200, [html |-> "Payment Successful"])
                 ELSE IF hasPaymentId /\ hasSignature
                         /\ ~verifyPaymentSignature(orderId, paymentId, query.signature)
                 THEN Respond(readFile(w), 400, [json |-> [error |-> "Payment verification failed"]])
                 ELSE LET w1 == updateOrder(readFile(w), orderId,
                                   [status |-> "completed", paymentStatus |-> "captured",
                                    paymentId |-> IF hasPaymentId THEN paymentId
                                                  ELSE "razorpay_payment_id",
                                    completedAt |-> Timestamp])
                          w2 == sendPaymentConfirmation(w1, order.whatsappId, order)
                          w3 == createOrUpdateSession(w2, order.whatsappId,
                                    [whatsappId |-> order.whatsappId, step |-> "completed",
                                     orderId |-> orderId, completedAt |-> Timestamp])
                      IN  Respond(w3, 200, [html |-> "Payment Successful"])

-----------------------------------------------------------------------------
(* The requests of the model *)

Phones == {"919876543210", "919812345678"}

Texts ==
    { <<"h", "i">>,
      <<" ", "H", "e", "l", "l", "o", "\n">>,
      <<"S", "T", "A", "R", "T">>,
      <<"8", "a", "_", "s", "e", "r", "v", "i", "c", "e">>,
      <<" ", "8", "A", " ", "F", "o", "r", "m", " ">>,
      <<"7", "/", "1", "2">>,
      <<"F", "e", "r", "f", "a", "r", "_", "S", "e", "r", "v", "i", "c", "e">>,
      <<"f", "e", "r", "f", "a", "r">>,
      <<" ", "P", "R", "O", "P", "E", "R", "T", "Y", " ">>,
      <<"p", "r", "o", "p", "e", "r", "t", "y", "_", "c", "a", "r", "d", "_", "s", "e", "r", "v", "i", "c", "e">>,
      <<"h", "e", "l", "p">> }

ButtonIds == {Kw8aService, KwPropertyCardService}

FormResponses == {"{\"name\":\"John\"}", "{name:"}

TextMessage(from, t) == [from |-> from, type |-> "text", text |-> [body |-> t]]
ButtonReply(from, id) ==
    [from |-> from, type |-> "interactive",
     interactive |-> [type |-> "button_reply", button_reply |-> [id |-> id]]]
ListReply(from, id) ==
    [from |-> from, type |-> "interactive",
     interactive |-> [type |-> "list_reply", list_reply |-> [id |-> id]]]
FormReply(from, json) ==
    [from |-> from, type |-> "interactive",
     interactive |-> [type |-> "nfm_reply", nfm_reply |-> [response_json |-> json]]]
LegacyButton(from, t) == [from |-> from, type |-> "button", button |-> [text |-> t]]
ImageMessage(from) == [from |-> from, type |-> "image"]

\* the first phone sends every kind of record, the second a few
MessageRecords ==
    {TextMessage("919876543210", t) : t \in Texts}
    \cup {ButtonReply("919876543210", b) : b \in ButtonIds}
    \cup {FormReply(p, j) : p \in Phones, j \in FormResponses}
    \cup {TextMessage("919812345678", KwHi), ButtonReply("919812345678", Kw712Service),
          ListReply("919876543210", Kw712Service), LegacyButton("919876543210", KwFerfar),
          TextMessage("919876543210", <<>>),
          ListReply("919876543210", <<"o", "t", "h", "e", "r">>),
          ImageMessage("919876543210"),
          [from |-> "919876543210", type |-> "interactive",
           interactive |-> [type |-> "button_reply"]],
          [from |-> "919876543210", type |-> "text"],
          [from |-> "919876543210", type |-> "text", text |-> [preview_url |-> FALSE]]}

Delivery(value) == [object |-> "whatsapp_business_account",
                    entry |-> Arr(<< [id |-> "WABA", changes |-> Arr(<< [value |-> value] >>)] >>)]

WebhookBodies ==
    {Delivery([messages |-> Arr(<<m>>)]) : m \in MessageRecords}
    \cup {Delivery([messages |-> Arr(<<ButtonReply(p, Kw8aService), FormReply(p, "{}")>>)]) :
             p \in Phones}
    \cup {Delivery([messages |-> Arr(<<Null, TextMessage("919876543210", KwHi)>>)]),
          Delivery([messages |-> Arr(<<[from |-> "919876543210", type |-> "text"],
                                       TextMessage("919876543210", KwHi)>>)]),
          [object |-> "whatsapp_business_account",
           entry |-> Arr(<< [id |-> "WABA",
                             changes |-> Arr(<< [field |-> "messages",
                                                 value |-> [statuses |-> Arr(<<Null>>)]],
                                                [field |-> "messages",
                                                 value |-> [messages |->
                                                     Arr(<<TextMessage("919876543210", KwHi)>>)]] >>)] >>)],
          Delivery([messages |-> Arr(<<>>)]),
          Delivery([statuses |-> Arr(<< [id |-> "wamid.1", status |-> "delivered"] >>)]),
          Delivery([statuses |-> Arr(<<Null>>)]),
          Delivery([errors |-> [code |-> 131047]]),
          Delivery([errors |-> Arr(<<Null>>)]),
          Delivery([contacts |-> Arr(<<>>)]),
          [object |-> "whatsapp_business_account"],
          [entry |-> [id |-> "WABA"]],
          <<>>,
          [entry |-> Arr(<< [id |-> "WABA"], Null >>)],
          Null}

\* what a payment callback may carry as signature: the HMAC of the order and
\* payment identifiers under the shared secret, or anything else
ValidSignature(orderId, paymentId) == <<"hmac-sha256", orderId, paymentId>>
ForgedSignature == <<"forged">>

\* GET /payment/success requests: the query string and the parsed body
SuccessRequests ==
    UNION { { [query |-> [orderId |-> o], body |-> <<>>],
              [query |-> [orderId |-> o, paymentId |-> "pay_1", mock |-> "true"], body |-> <<>>],
              [query |-> [orderId |-> o, paymentId |-> "pay_1"], body |-> [mock |-> "true"]],
              [query |-> [orderId |-> o, paymentId |-> "pay_1",
                          signature |-> ValidSignature(o, "pay_1")], body |-> <<>>],
              [query |-> [orderId |-> o, paymentId |-> "pay_1",
                          signature |-> ForgedSignature], body |-> <<>>] } :
            o \in {"ORD_1", "ORD_2"} }
    \cup { [query |-> [orderId |-> "ORD_404", paymentId |-> "pay_1", mock |-> "true"], body |-> <<>>],
           [query |-> [orderId |-> "ORD_404"], body |-> [mock |-> "true"]],
           [query |-> [orderId |-> "", paymentId |-> "pay_1"], body |-> <<>>],
           [query |-> [paymentId |-> "pay_1", mock |-> "true"], body |-> <<>>],
           [query |-> [paymentId |-> "pay_1"], body |-> [mock |-> "true"]] }

FailureQueries ==
    {[orderId |-> o] : o \in {"ORD_1", "ORD_2", "ORD_404", ""}} \cup {[reason |-> "cancelled"]}

VerifyQueries ==
    {[m \in {"hub.mode"} |-> "subscribe"]}
    \cup { ("hub.mode" :> m) @@ ("hub.verify_token" :> t) @@ ("hub.challenge" :> "1158201444") :
             m \in {"subscribe", "unsubscribe"},
             t \in {"my_secret_token", "MY_SECRET_TOKEN", " my_secret_token ", "wrong"} }
    \cup { ("hub.verify_token" :> "my_secret_token") @@ ("hub.challenge" :> "1158201444"),
           ("hub.mode" :> "subscribe") @@ ("hub.challenge" :> "1158201444") }

Environments ==
    { [WHATSAPP_ACCESS_TOKEN |-> "EAAB_live_token", WHATSAPP_PHONE_NUMBER_ID |-> "945940578601053",
       VERIFY_TOKEN |-> "my_secret_token"],
      [NODE_ENV |-> "development"] }

\* what the network does to the sends of one request
Nets == IF hasRealCredentials THEN {"up", "down"} ELSE {"up"}

\* deliveries with a form submission make more than one send; for them the
\* network may also fail the first send only
FormDeliveries ==
    {Delivery([messages |-> Arr(<<FormReply(p, j)>>)]) : p \in Phones, j \in FormResponses}
    \cup {Delivery([messages |-> Arr(<<ButtonReply(p, Kw8aService), FormReply(p, "{}")>>)]) :
             p \in Phones}

WebhookNets(body) ==
    IF hasRealCredentials /\ body \in FormDeliveries THEN Nets \cup {"flaky"} ELSE Nets

-----------------------------------------------------------------------------
(* The state machine *)

Init ==
    /\ users = <<>>
    /\ orders = <<>>
    /\ sessions = <<>>
    /\ env \in Environments
    /\ now = 0
    /\ req = [kind |-> "none"]
    /\ sent = <<>>
    /\ io = 0
    /\ tasks = <<>>
    /\ resp = <<>>

\* the handler has run to its end in world w
Finish(w, r) ==
    /\ Len(w.orders) <= MaxOrders
    /\ users' = w.users
    /\ orders' = w.orders
    /\ sessions' = w.sessions
    /\ sent' = w.sent
    /\ io' = w.io
    /\ resp' = w.resp
    /\ req' = r
    /\ now' = now + 1
    /\ UNCHANGED <<env, tasks>>

\* POST /webhook
PostWebhook ==
    \E body \in WebhookBodies :
      \E net \in WebhookNets(body) :
        /\ now < MaxEvents
        /\ Finish(handleWebhook(World(users, orders, sessions, net), body),
                  [kind |-> "webhook", body |-> body, net |-> net])

\* GET /webhook
GetWebhook ==
    \E query \in VerifyQueries :
        /\ now < MaxEvents
        /\ Finish(verify(World(users, orders, sessions, "up"), query),
                  [kind |-> "verify", query |-> query])

\* GET /payment/success
GetPaymentSuccess ==
    \E r \in SuccessRequests, net \in Nets :
        /\ now < MaxEvents
        /\ Finish(handleSuccess(World(users, orders, sessions, net), r.query, r.body),
                  [kind |-> "success", query |-> r.query, body |-> r.body, net |-> net])

\* GET /payment/failure
GetPaymentFailure ==
    \E query \in FailureQueries, net \in Nets :
        /\ now < MaxEvents
        /\ Finish(handleFailure(World(users, orders, sessions, net), query),
                  [kind |-> "failure", query |-> query, net |-> net])

Next == PostWebhook \/ GetWebhook \/ GetPaymentSuccess \/ GetPaymentFailure

Spec == Init /\ [][Next]_vars

-----------------------------------------------------------------------------
(* A body parser that leaves req.body undefined when a request carries no  *)
(* body (as body-parser 2 does) instead of setting it to {}: the success   *)
(* callback, a GET request, then arrives without req.body.                 *)

UnparsedSuccessQueries ==
    { [orderId |-> "ORD_1"],
      [orderId |-> "ORD_1", paymentId |-> "pay_1", signature |-> ValidSignature("ORD_1", "pay_1")],
      [orderId |-> "ORD_404", paymentId |-> "pay_1"],
      [paymentId |-> "pay_1", mock |-> "true"] }

\* GET /payment/success, req.body undefined
GetPaymentSuccessUnparsed ==
    \E query \in UnparsedSuccessQueries, net \in Nets :
        /\ now < MaxEvents
        /\ Finish(handleSuccess(World(users, orders, sessions, net), query, Null),
                  [kind |-> "success", query |-> query, body |-> Null, net |-> net])

UnparsedNext == Next \/ GetPaymentSuccessUnparsed

UnparsedSpec == Init /\ [][UnparsedNext]_vars

-----------------------------------------------------------------------------
(* Form submissions that answer a form trigger.  The user submits the form *)
(* that a trigger of the previous event opened; the submission returns     *)
(* that trigger's flow_token.  It arrives alone, or in one delivery behind *)
(* the user's selection of the other service.                              *)

OtherService(serviceId) ==
    IF serviceId = "8a_service" THEN Kw712Service ELSE Kw8aService

AnswerDeliveries(to, tok) ==
    { Delivery([messages |-> Arr(<<FormReply(to, ResponseJsonWith(tok))>>)]),
      Delivery([messages |-> Arr(<<ButtonReply(to, OtherService(tok[3])),
                                   FormReply(to, ResponseJsonWith(tok))>>)]) }

\* POST /webhook with the answer to a form trigger that was sent
PostAnswer ==
    \E k \in 1..Len(sent) :
        /\ now < MaxEvents
        /\ sent[k].message.type = "interactive"
        /\ sent[k].message.interactive.type = "flow"
        /\ LET tok == sent[k].message.interactive.action.parameters.flow_token
               to == sent[k].to
           IN  /\ tok \in FlowTokens
               /\ \E body \in AnswerDeliveries(to, tok), net \in Nets :
                      Finish(handleWebhook(World(users, orders, sessions, net), body),
                             [kind |-> "answer", body |-> body, net |-> net,
                              to |-> to, token |-> tok])

AnswerNext == Next \/ PostAnswer

AnswerSpec == Init /\ [][AnswerNext]_vars

-----------------------------------------------------------------------------
(* getServiceAmount on its own: the names to price are drawn at the start  *)
(* and priced one by one; the results are collected in resp.               *)

MaxNames == 2

\* "<undefined>" is the absent name, which indexes amounts as "undefined"
ServiceNames ==
    {"8A Form", "7/12 Form", "Ferfar", "Property Card",
     "<undefined>", "", "8a form", "Ferfar ", "Stamp Duty", "constructor", "toString"}

RECURSIVE NameLists(_)
NameLists(n) ==
    IF n = 0 THEN {<<>>}
    ELSE NameLists(n - 1)
         \cup {Append(l, s) : l \in {k \in NameLists(n - 1) : Len(k) = n - 1}, s \in ServiceNames}

PriceInit ==
    /\ users = <<>>
    /\ orders = <<>>
    /\ sessions = <<>>
    /\ env \in Environments
    /\ now = 0
    /\ req \in {[kind |-> "prices", serviceNames |-> l] : l \in NameLists(MaxNames)}
    /\ sent = <<>>
    /\ io = 0
    /\ tasks = <<>>
    /\ resp = <<>>

Quote ==
    /\ Len(resp) < Len(req.serviceNames)
    /\ LET serviceName == req.serviceNames[Len(resp) + 1]
       IN  resp' = Append(resp, [serviceName |-> serviceName,
                                 amount |-> getServiceAmount(serviceName)])
    /\ UNCHANGED <<users, orders, sessions, env, now, req, sent, io, tasks>>

PriceNext == Quote

PriceSpec == PriceInit /\ [][PriceNext]_vars

-----------------------------------------------------------------------------
(* sendMessage on its own: the service is constructed in one of several    *)
(* environments and sends a few messages, each with its own outcome of the *)
(* network; resp collects whether the call threw to its caller.            *)

MaxSends == 2

SendEnvironments ==
    { [WHATSAPP_ACCESS_TOKEN |-> "EAAB_live_token", WHATSAPP_PHONE_NUMBER_ID |-> "945940578601053"],
      [WHATSAPP_ACCESS_TOKEN |-> "EAAB_live_token"],
      [WHATSAPP_ACCESS_TOKEN |-> PlaceholderToken, WHATSAPP_PHONE_NUMBER_ID |-> "945940578601053"],
      [WHATSAPP_ACCESS_TOKEN |-> "my_test_token", WHATSAPP_PHONE_NUMBER_ID |-> "945940578601053"],
      [WHATSAPP_ACCESS_TOKEN |-> "", WHATSAPP_PHONE_NUMBER_ID |-> "945940578601053"],
      [WHATSAPP_PHONE_NUMBER_ID |-> "945940578601053"],
      [NODE_ENV |-> "development"] }

\* what axios.post meets: a 2xx answer, no connection, a 401 answer, no
\* answer within the timeout
SendNets == {"up", "down", "http_401", "timeout"}

SendMessages ==
    { [type |-> "text", text |-> [body |-> HelpText]],
      welcomeMessage,
      buildFlowMessage("8a_service", "8A Form") }

SendInit ==
    /\ users = <<>>
    /\ orders = <<>>
    /\ sessions = <<>>
    /\ env \in SendEnvironments
    /\ now = 0
    /\ req = [kind |-> "none"]
    /\ sent = <<>>
    /\ io = 0
    /\ tasks = <<>>
    /\ resp = <<>>

Send ==
    \E to \in Phones, message \in SendMessages, net \in SendNets :
        /\ Len(resp) < MaxSends
        /\ LET w == sendMessage(World(<<>>, <<>>, <<>>, net), to, message)
           IN  /\ sent' = sent \o w.sent
               /\ resp' = Append(resp, [threw |-> w.threw])
        /\ req' = [kind |-> "send", to |-> to, message |-> message, net |-> net]
        /\ UNCHANGED <<users, orders, sessions, env, now, io, tasks>>

SendNext == Send

SendSpec == SendInit /\ [][SendNext]_vars

-----------------------------------------------------------------------------
(* Overlapping requests.  Express starts a handler for every request as it *)
(* arrives, and a handler gives way at every await: after a lookup, after  *)
(* readFile has returned the parsed file, after writeFile, after a send.   *)
(* What runs between two awaits runs alone.  A task is one handler run; it *)
(* keeps what the handler holds in local variables: the result of its last *)
(* lookup (found, held) and the array that readFile returned (file).       *)

MaxTasks == 2

\* a world around the array a database method has read
FileWorld(us, os, ss) == World(us, os, ss, "up")

\* stores the bot can be in when requests start to overlap: nothing on file,
\* the first user at a pending selection, the first user at a pending payment
AfterSelection ==
    handleMessage(FileWorld(<<>>, <<>>, <<>>), "919876543210", Kw8aService)
AfterSubmission ==
    handleFlowCompletion(FileWorld(AfterSelection.users, <<>>, AfterSelection.sessions),
                         "919876543210", "{}", <<>>)
Stores == {FileWorld(<<>>, <<>>, <<>>), AfterSelection, AfterSubmission}

\* the requests that overlap: two selections of the first user, one of the
\* second, a form submission, a success callback without signature
OverlappingRequests ==
    { [kind |-> "select", from |-> "919876543210", arg |-> "712_service", name |-> "7/12 Form"],
      [kind |-> "select", from |-> "919876543210", arg |-> "ferfar_service", name |-> "Ferfar"],
      [kind |-> "select", from |-> "919812345678", arg |-> "712_service", name |-> "7/12 Form"],
      [kind |-> "submit", from |-> "919876543210", arg |-> "{}", name |-> ""],
      [kind |-> "success", from |-> "", arg |-> "ORD_1", name |-> ""] }

FirstPc(kind) ==
    CASE kind = "select" -> "user.find"
      [] kind = "submit" -> "session.get"
      [] kind = "clear" -> "clear.users"
      [] kind = "failure" -> "fail.read"
      [] kind = "mock" -> "mock.find"
      [] OTHER -> "order.find"

ConcInit ==
    /\ now = 0
    /\ env \in Environments
    /\ \E w \in Stores : users = w.users /\ orders = w.orders /\ sessions = w.sessions
    /\ req = [kind |-> "none"]
    /\ sent = <<>>
    /\ io = 0
    /\ tasks = <<>>
    /\ resp = <<>>

\* a request arrives and its handler starts
Arrive ==
    \E r \in OverlappingRequests :
        /\ Len(tasks) < MaxTasks
        /\ tasks' = Append(tasks, [kind |-> r.kind, from |-> r.from, arg |-> r.arg,
                                   name |-> r.name, pc |-> FirstPc(r.kind),
                                   found |-> FALSE, held |-> <<>>, file |-> <<>>,
                                   created |-> ""])
        /\ req' = [kind |-> "overlapping", request |-> r]
        /\ now' = now + 1
        /\ UNCHANGED <<users, orders, sessions, env, sent, io, resp>>

\* the user a task's session belongs to
SessionOwner(t) == IF t.kind = "success" THEN t.held.whatsappId ELSE t.from

\* findUserByWhatsappId, findSessionByWhatsappId, findOrderByOrderId: the
\* method reads the file and returns the record it finds, if any
Lookup ==
    \E i \in 1..Len(tasks) :
        LET t == tasks[i]
        IN  /\ t.pc \in {"user.find", "session.get", "session.find", "order.find"}
            /\ tasks' = [tasks EXCEPT ![i] =
                  CASE t.pc = "user.find" ->
                         [t EXCEPT !.found = FindIndex(users, "whatsappId", t.from) # 0,
                                   !.pc = "user.read"]
                    [] t.pc = "session.get" ->
                         LET si == FindIndex(sessions, "whatsappId", t.from)
                         IN  IF si = 0 THEN [t EXCEPT !.pc = "expired"]
                             ELSE [t EXCEPT !.held = sessions[si], !.pc = "order.read"]
                    [] t.pc = "session.find" ->
                         [t EXCEPT !.found = FindIndex(sessions, "whatsappId", SessionOwner(t)) # 0,
                                   !.pc = "session.read"]
                    [] OTHER ->
                         LET oi == FindIndex(orders, "orderId", t.arg)
                         IN  IF oi = 0 THEN [t EXCEPT !.pc = "notfound"]
                             ELSE [t EXCEPT !.held = orders[oi], !.pc = "order.read"] ]
            /\ UNCHANGED <<users, orders, sessions, env, now, req, sent, io, resp>>

\* readFile inside createX / updateX: the method now holds the parsed file
ReadFile ==
    \E i \in 1..Len(tasks) :
        LET t == tasks[i]
        IN  /\ t.pc \in {"user.read", "session.read", "order.read"}
            /\ tasks' = [tasks EXCEPT ![i] =
                  CASE t.pc = "user.read" -> [t EXCEPT !.file = users, !.pc = "user.write"]
                    [] t.pc = "session.read" -> [t EXCEPT !.file = sessions, !.pc = "session.write"]
                    [] OTHER -> [t EXCEPT !.file = orders, !.pc = "order.write"] ]
            /\ UNCHANGED <<users, orders, sessions, env, now, req, sent, io, resp>>

\* what a task passes to createOrUpdateSession
SessionData(t, i) ==
    CASE t.kind = "select" ->
           [whatsappId |-> t.from, step |-> "awaiting_flow_completion",
            selectedService |-> t.arg, serviceName |-> t.name, createdAt |-> Timestamp]
      [] t.kind = "submit" ->
           Spread(t.held, [step |-> "awaiting_payment", orderId |-> t.created])
      [] OTHER ->
           [whatsappId |-> t.held.whatsappId, step |-> "completed",
            orderId |-> t.arg, completedAt |-> Timestamp]

\* the rest of createX / updateX: the array that was read is changed in
\* memory and written back whole; an update that finds no record writes
\* nothing
WriteFile ==
    \E i \in 1..Len(tasks) :
        LET t == tasks[i]
        IN  /\ t.pc \in {"user.write", "session.write", "order.write"}
            /\ IF t.pc = "user.write"
               THEN LET userData == [whatsappId |-> t.from, phoneNumber |-> t.from,
                                     lastSeen |-> Timestamp, lastMessage |-> t.arg]
                        w == FileWorld(t.file, <<>>, <<>>)
                    IN  /\ users' = IF ~t.found THEN createUser(w, userData).users
                                    ELSE IF FindIndex(t.file, "whatsappId", t.from) = 0 THEN users
                                    ELSE updateUser(w, t.from, userData).users
                        /\ tasks' = [tasks EXCEPT ![i].pc = "session.find"]
                        /\ UNCHANGED <<orders, sessions>>
               ELSE IF t.pc = "session.write"
               THEN LET w == FileWorld(<<>>, <<>>, t.file)
                        owner == SessionOwner(t)
                    IN  /\ sessions' =
                              IF ~t.found THEN createSession(w, SessionData(t, i)).sessions
                              ELSE IF FindIndex(t.file, "whatsappId", owner) = 0 THEN sessions
                              ELSE updateSession(w, owner, SessionData(t, i)).sessions
                        /\ tasks' = [tasks EXCEPT ![i].pc = "send"]
                        /\ UNCHANGED <<users, orders>>
               ELSE LET w == FileWorld(<<>>, t.file, <<>>)
                        newId == OrderIdPool[i + 1]
                    IN  IF t.kind = "submit"
                        THEN /\ orders' = createOrder(w,
                                     [orderId |-> newId,
                                      whatsappId |-> t.from,
                                      serviceType |-> t.held.serviceName,
                                      userData |-> <<>>,
                                      amount |-> getServiceAmount(t.held.serviceName),
                                      status |-> "pending",
                                      paymentStatus |-> "pending",
                                      createdAt |-> Timestamp]).orders
                             /\ tasks' = [tasks EXCEPT ![i].pc = "session.find",
                                                       ![i].created = newId]
                             /\ UNCHANGED <<users, sessions>>
                        ELSE /\ orders' =
                                   IF FindIndex(t.file, "orderId", t.arg) = 0 THEN orders
                                   ELSE updateOrder(w, t.arg,
                                            [status |-> "completed", paymentStatus |-> "captured",
                                             paymentId |-> "razorpay_payment_id",
                                             completedAt |-> Timestamp]).orders
                             /\ tasks' = [tasks EXCEPT ![i].pc = "confirm"]
                             /\ UNCHANGED <<users, sessions>>
            /\ UNCHANGED <<env, now, req, sent, io, resp>>

\* the sends and the response that end a handler or one of its stages
Notify ==
    \E i \in 1..Len(tasks) :
        LET t == tasks[i]
            w == FileWorld(<<>>, <<>>, <<>>)
        IN  /\ t.pc \in {"expired", "notfound", "confirm", "send"}
            /\ IF t.pc = "expired"
               THEN /\ sent' = sent \o sendTextMessage(w, t.from, ExpiredText).sent
                    /\ resp' = Append(resp, [status |-> 200, body |-> [text |-> EventReceived]])
                    /\ tasks' = [tasks EXCEPT ![i].pc = "done"]
               ELSE IF t.pc = "notfound"
               THEN /\ resp' = Append(resp, [status |-> 404,
                                              body |-> [json |-> [error |-> "Order not found"]]])
                    /\ tasks' = [tasks EXCEPT ![i].pc = "done"]
                    /\ UNCHANGED sent
               ELSE IF t.pc = "confirm"
               THEN /\ sent' = sent \o sendPaymentConfirmation(w, t.held.whatsappId, t.held).sent
                    /\ tasks' = [tasks EXCEPT ![i].pc = "session.find"]
                    /\ UNCHANGED resp
               ELSE /\ sent' = sent \o
                         (CASE t.kind = "select" ->
                                 sendMessage(w, t.from, buildFlowMessage(t.arg, t.name)).sent
                            [] t.kind = "submit" ->
                                 sendPaymentLink(
                                     sendTextMessage(w, t.from,
                                         [tpl |-> "Thank you for filling the form!",
                                          orderId |-> t.created]),
                                     t.from, [orderId |-> t.created]).sent
                            [] OTHER -> <<>>)
                    /\ resp' = Append(resp,
                                  IF t.kind = "success"
                                  THEN [status |-> 200, body |-> [html |-> "Payment Successful"]]
                                  ELSE [status |-> 200, body |-> [text |-> EventReceived]])
                    /\ tasks' = [tasks EXCEPT ![i].pc = "done"]
            /\ UNCHANGED <<users, orders, sessions, env, now, req, io>>

ConcNext == Arrive \/ Lookup \/ ReadFile \/ WriteFile \/ Notify

ConcSpec == ConcInit /\ [][ConcNext]_vars

-----------------------------------------------------------------------------
(* POST /test/clear next to the other requests.  The route answers at once *)
(* and does not wait for clearAll, which writes [] to the three files one  *)
(* after the other, giving way after each write.                           *)

ClearRequest == [kind |-> "clear", from |-> "", arg |-> "", name |-> ""]

\* the route is closed when NODE_ENV is "production"
ArriveClear ==
    /\ ~(Has(env, "NODE_ENV") /\ env.NODE_ENV = "production")
    /\ Len(tasks) < MaxTasks
    /\ tasks' = Append(tasks, [kind |-> "clear", from |-> "", arg |-> "", name |-> "",
                               pc |-> FirstPc("clear"), found |-> FALSE, held |-> <<>>,
                               file |-> <<>>, created |-> ""])
    /\ req' = [kind |-> "overlapping", request |-> ClearRequest]
    /\ resp' = Append(resp, [status |-> 200,
                             body |-> [json |-> [message |-> "All test data cleared"]]])
    /\ now' = now + 1
    /\ UNCHANGED <<users, orders, sessions, env, sent, io>>

\* the next writeFile of clearAll
clearAll ==
    \E i \in 1..Len(tasks) :
        LET t == tasks[i]
        IN  /\ t.pc \in {"clear.users", "clear.orders", "clear.sessions"}
            /\ users' = IF t.pc = "clear.users" THEN <<>> ELSE users
            /\ orders' = IF t.pc = "clear.orders" THEN <<>> ELSE orders
            /\ sessions' = IF t.pc = "clear.sessions" THEN <<>> ELSE sessions
            /\ tasks' = [tasks EXCEPT ![i].pc =
                  CASE t.pc = "clear.users" -> "clear.orders"
                    [] t.pc = "clear.orders" -> "clear.sessions"
                    [] OTHER -> "done"]
            /\ UNCHANGED <<env, now, req, sent, io, resp>>

ClearNext == ConcNext \/ ArriveClear \/ clearAll

ClearSpec == ConcInit /\ [][ClearNext]_vars

-----------------------------------------------------------------------------
(* Payment callbacks next to form submissions: GET /payment/failure and    *)
(* GET /payment/success for the same order while the user submits a form.  *)
(* handleFailure calls updateOrder (readFile, writeFile), looks the order  *)
(* up again, sends the failure text and answers with the failure page.     *)

\* the form submission and the success callback of the overlapping requests
PaymentRequests == {r \in OverlappingRequests : r.kind \in {"submit", "success"}}

ArrivePayment ==
    \E r \in PaymentRequests :
        /\ Len(tasks) < MaxTasks
        /\ tasks' = Append(tasks, [kind |-> r.kind, from |-> r.from, arg |-> r.arg,
                                   name |-> r.name, pc |-> FirstPc(r.kind),
                                   found |-> FALSE, held |-> <<>>, file |-> <<>>,
                                   created |-> ""])
        /\ req' = [kind |-> "overlapping", request |-> r]
        /\ now' = now + 1
        /\ UNCHANGED <<users, orders, sessions, env, sent, io, resp>>

FailureRequest == [kind |-> "failure", from |-> "", arg |-> "ORD_1", name |-> ""]

ArriveFailure ==
    /\ Len(tasks) < MaxTasks
    /\ tasks' = Append(tasks, [kind |-> "failure", from |-> "", arg |-> FailureRequest.arg,
                               name |-> "", pc |-> FirstPc("failure"), found |-> FALSE,
                               held |-> <<>>, file |-> <<>>, created |-> ""])
    /\ req' = [kind |-> "overlapping", request |-> FailureRequest]
    /\ now' = now + 1
    /\ UNCHANGED <<users, orders, sessions, env, sent, io, resp>>

\* the next step of a handleFailure run
FailureStep ==
    \E i \in 1..Len(tasks) :
        LET t == tasks[i]
        IN  /\ t.pc \in {"fail.read", "fail.write", "fail.find"}
            /\ IF t.pc = "fail.read"
               THEN /\ tasks' = [tasks EXCEPT ![i].file = orders, ![i].pc = "fail.write"]
                    /\ UNCHANGED <<orders, sent, resp>>
               ELSE IF t.pc = "fail.write"
               THEN /\ orders' = IF FindIndex(t.file, "orderId", t.arg) = 0 THEN orders
                                 ELSE updateOrder(FileWorld(<<>>, t.file, <<>>), t.arg,
                                                  FailedUpdates).orders
                    /\ tasks' = [tasks EXCEPT ![i].pc = "fail.find"]
                    /\ UNCHANGED <<sent, resp>>
               ELSE LET oi == FindIndex(orders, "orderId", t.arg)
                    IN  /\ sent' = IF oi = 0 THEN sent
                                   ELSE sent \o sendTextMessage(FileWorld(<<>>, <<>>, <<>>),
                                                   orders[oi].whatsappId,
                                                   [tpl |-> "Payment failed for order",
                                                    orderId |-> t.arg]).sent
                        /\ resp' = Append(resp, [status |-> 200,
                                                 body |-> [html |-> "Payment Failed"]])
                        /\ tasks' = [tasks EXCEPT ![i].pc = "done"]
                        /\ UNCHANGED orders
            /\ UNCHANGED <<users, sessions, env, now, req, io>>

CallbackNext ==
    ArrivePayment \/ ArriveFailure \/ Lookup \/ ReadFile \/ WriteFile \/ Notify \/ FailureStep

CallbackSpec == ConcInit /\ [][CallbackNext]_vars

-----------------------------------------------------------------------------
(* One user's way through the bot, handler by handler: the user selects a  *)
(* service, submits the form, and a success callback arrives for the order *)
(* that was created; each request arrives when the handler before it has   *)
(* ended, and nothing else arrives.  The callback is the plain one, or the *)
(* one with mock "true" in its body.  Node runs every continuation that is *)
(* ready, so each handler step is weakly fair; arrivals are not.           *)

\* the requests of the journey, in the order in which they arrive
Journey == <<"select", "submit", "callback">>

JourneyUser == "919876543210"

\* the requests that may come next in the journey
JourneyRequests ==
    IF Journey[Len(tasks) + 1] = "callback"
    THEN {[kind |-> k, from |-> "", arg |-> tasks[Len(tasks)].created, name |-> ""] :
             k \in {"success", "mock"}}
    ELSE {r \in OverlappingRequests :
             r.kind = Journey[Len(tasks) + 1] /\ r.from = JourneyUser}

JourneyArrive ==
    /\ Len(tasks) < Len(Journey)
    /\ \A i \in 1..Len(tasks) : tasks[i].pc = "done"
    /\ \E r \in JourneyRequests :
          /\ tasks' = Append(tasks, [kind |-> r.kind, from |-> r.from, arg |-> r.arg,
                                     name |-> r.name, pc |-> FirstPc(r.kind),
                                     found |-> FALSE, held |-> <<>>, file |-> <<>>,
                                     created |-> ""])
          /\ req' = [kind |-> "overlapping", request |-> r]
    /\ now' = now + 1
    /\ UNCHANGED <<users, orders, sessions, env, sent, io, resp>>

\* the next step of a handleSuccess run whose request carries mock "true":
\* the order is looked up and updated, the confirmation is sent, and the
\* success page is returned from inside the mock branch
MockStep ==
    \E i \in 1..Len(tasks) :
        LET t == tasks[i]
        IN  /\ t.pc \in {"mock.find", "mock.read", "mock.write", "mock.confirm"}
            /\ IF t.pc = "mock.find"
               THEN LET oi == FindIndex(orders, "orderId", t.arg)
                    IN  /\ tasks' = [tasks EXCEPT ![i] =
                                IF oi = 0 THEN [t EXCEPT !.pc = "notfound"]
                                ELSE [t EXCEPT !.held = orders[oi], !.pc = "mock.read"]]
                        /\ UNCHANGED <<orders, sent, resp>>
               ELSE IF t.pc = "mock.read"
               THEN /\ tasks' = [tasks EXCEPT ![i].file = orders, ![i].pc = "mock.write"]
                    /\ UNCHANGED <<orders, sent, resp>>
               ELSE IF t.pc = "mock.write"
               THEN /\ orders' = IF FindIndex(t.file, "orderId", t.arg) = 0 THEN orders
                                 ELSE updateOrder(FileWorld(<<>>, t.file, <<>>), t.arg,
                                          [status |-> "completed", paymentStatus |-> "captured",
                                           paymentId |-> "mock_<now>",
                                           completedAt |-> Timestamp]).orders
                    /\ tasks' = [tasks EXCEPT ![i].pc = "mock.confirm"]
                    /\ UNCHANGED <<sent, resp>>
               ELSE /\ sent' = sent \o sendPaymentConfirmation(FileWorld(<<>>, <<>>, <<>>),
                                          t.held.whatsappId, t.held).sent
                    /\ resp' = Append(resp, [status |-> 200,
                                             body |-> [html |-> "Payment Successful"]])
                    /\ tasks' = [tasks EXCEPT ![i].pc = "done"]
                    /\ UNCHANGED orders
            /\ UNCHANGED <<users, sessions, env, now, req, io>>

JourneyNext == JourneyArrive \/ Lookup \/ ReadFile \/ WriteFile \/ Notify \/ MockStep

JourneySpec ==
    /\ ConcInit
    /\ [][JourneyNext]_vars
    /\ WF_vars(Lookup) /\ WF_vars(ReadFile) /\ WF_vars(WriteFile)
    /\ WF_vars(Notify) /\ WF_vars(MockStep)

-----------------------------------------------------------------------------
(* Vocabulary of the properties *)

\* the session of user p in the list ss (p has one)
SessionOf(ss, p) == ss[FindIndex(ss, "whatsappId", p)]
HasSession(ss, p) == FindIndex(ss, "whatsappId", p) # 0
SessionCount(ss, p) == Cardinality({i \in 1..Len(ss) : ss[i].whatsappId = p})

\* the order with identifier o in the list os (there is one)
OrderOf(os, o) == os[FindIndex(os, "orderId", o)]
HasOrder(os, o) == FindIndex(os, "orderId", o) # 0

\* a delivery that carries the single message record m
Single(m) == Delivery([messages |-> Arr(<<m>>)])

\* the price list of the four services
FixedPrice == [s \in {"8A Form", "7/12 Form", "Ferfar", "Property Card"} |->
                 CASE s = "8A Form" -> 500 [] s = "7/12 Form" -> 300
                   [] s = "Ferfar" -> 400 [] OTHER -> 250]

IsTextTo(m, p, tpl) ==
    /\ m.to = p
    /\ m.message.type = "text"
    /\ m.message.text.body.tpl = tpl

-----------------------------------------------------------------------------
(* C1: every POST /webhook delivery - well-formed, malformed, or one whose *)
(* processing throws - gets exactly one response, and it is                *)
(* 200 EVENT_RECEIVED.                                                     *)

C1_AlwaysAcknowledged ==
    req.kind = "webhook" =>
        /\ Len(resp) = 1
        /\ resp[1].status = 200
        /\ resp[1].body = [text |-> EventReceived]

\* a delivery whose first message record is null has been answered
C1_Witness ==
    /\ req.kind = "webhook"
    /\ req.body = Delivery([messages |-> Arr(<<Null, TextMessage("919876543210", KwHi)>>)])
    /\ Len(resp) = 1
    /\ sent = <<>>

-----------------------------------------------------------------------------
(* C2: a form submission of a user who has a session adds exactly one      *)
(* order - that user's, for the session's service, at the fixed price of   *)
(* that service (500 for "8A Form"), pending/pending - and moves the       *)
(* session to awaiting_payment with the new order's identifier, keeping    *)
(* selectedService and serviceName.                                        *)

C2_FlowCompletionCreatesOrder ==
    [][ \A p \in Phones, j \in FormResponses :
          (req'.kind = "webhook" /\ req'.body = Single(FormReply(p, j)) /\ HasSession(sessions, p))
          => LET before == SessionOf(sessions, p)
                 order == orders'[Len(orders')]
                 after == SessionOf(sessions', p)
             IN  /\ Len(orders') = Len(orders) + 1
                 /\ SubSeq(orders', 1, Len(orders)) = orders
                 /\ ~HasOrder(orders, order.orderId)
                 /\ order.whatsappId = p
                 /\ order.serviceType = before.serviceName
                 /\ order.amount = FixedPrice[before.serviceName]
                 /\ (before.serviceName = "8A Form" => order.amount = 500)
                 /\ order.status = "pending"
                 /\ order.paymentStatus = "pending"
                 /\ SessionCount(sessions', p) = 1
                 /\ after.step = "awaiting_payment"
                 /\ after.orderId = order.orderId
                 /\ after.selectedService = before.selectedService
                 /\ after.serviceName = before.serviceName
      ]_vars

\* the first user has submitted the form of the 8A service
C2_Witness ==
    /\ req.kind = "webhook"
    /\ req.body = Single(FormReply("919876543210", "{\"name\":\"John\"}"))
    /\ HasSession(sessions, "919876543210")
    /\ SessionOf(sessions, "919876543210").step = "awaiting_payment"
    /\ SessionOf(sessions, "919876543210").serviceName = "8A Form"
    /\ Len(orders) = 1
    /\ orders[1].amount = 500
    /\ Len(sent) = 2

-----------------------------------------------------------------------------
(* C3: a success callback with mock=true for an existing order leaves the  *)
(* order completed/captured, the owner's session at step completed, and    *)
(* exactly one confirmation message attempted.                             *)

IsMock(r) ==
    \/ Has(r.query, "mock") /\ r.query.mock = "true"
    \/ Has(r.body, "mock") /\ r.body.mock = "true"

C3_MockSuccessCompletes ==
    (req.kind = "success" /\ IsMock(req) /\ Has(req.query, "orderId")
        /\ HasOrder(orders, req.query.orderId))
    => LET order == OrderOf(orders, req.query.orderId)
       IN  /\ order.status = "completed"
           /\ order.paymentStatus = "captured"
           /\ HasSession(sessions, order.whatsappId)
           /\ SessionOf(sessions, order.whatsappId).step = "completed"
           /\ Len(sent) = 1
           /\ IsTextTo(sent[1], order.whatsappId, "Payment Successful!")

-----------------------------------------------------------------------------
(* C4: a success callback that is not a mock completes the order only      *)
(* after its signature has verified: when the signature is missing or is   *)
(* not the authentic one for (orderId, paymentId), the callback is         *)
(* answered with an error status and the orders are left as they were.     *)

SignatureVerifies(query) ==
    /\ Has(query, "paymentId")
    /\ Has(query, "signature")
    /\ query.signature = ValidSignature(query.orderId, query.paymentId)

C4_FailClosed ==
    [][ (/\ req'.kind = "success"
         /\ ~IsMock(req')
         /\ Has(req'.query, "orderId")
         /\ HasOrder(orders, req'.query.orderId)
         /\ ~SignatureVerifies(req'.query))
        => (/\ orders' = orders
            /\ resp'[1].status >= 400)
      ]_vars

-----------------------------------------------------------------------------
(* C5: a success callback without an orderId is answered 400, one whose    *)
(* orderId matches no order is answered 404; either way the users, orders  *)
(* and sessions on file are unchanged and no message is sent.              *)

NoOrderId(query) == ~Has(query, "orderId") \/ query.orderId = ""

-----------------------------------------------------------------------------
(* C6: with a verify token configured, the handshake is answered 200 with  *)
(* the challenge exactly when hub.mode is "subscribe" and hub.verify_token *)
(* is that token, character for character; every other request is         *)
(* answered 403. The handshake changes nothing on file and sends nothing,  *)
(* and the same request made twice in a row gets the same answer.          *)

C6_VerifyHandshake ==
    [][ (req'.kind = "verify" /\ Has(env, "VERIFY_TOKEN"))
        => LET q == req'.query
               accepted == /\ Has(q, "hub.mode")
                           /\ q["hub.mode"] = "subscribe"
                           /\ Has(q, "hub.verify_token")
                           /\ q["hub.verify_token"] = env.VERIFY_TOKEN
           IN  /\ Len(resp') = 1
               /\ accepted => /\ resp'[1].status = 200
                              /\ Has(q, "hub.challenge") => resp'[1].body = [text |-> q["hub.challenge"]]
               /\ ~accepted => resp'[1].status = 403
               /\ users' = users /\ orders' = orders /\ sessions' = sessions
               /\ sent' = <<>>
               /\ (req.kind = "verify" /\ req.query = q) => resp' = resp
      ]_vars

\* an accepted handshake repeated with records on file
C6_Witness ==
    /\ req.kind = "verify"
    /\ Has(env, "VERIFY_TOKEN")
    /\ Has(req.query, "hub.verify_token")
    /\ req.query["hub.verify_token"] = env.VERIFY_TOKEN
    /\ resp[1].status = 200
    /\ resp[1].body = [text |-> req.query["hub.challenge"]]
    /\ Len(sessions) > 0
    /\ now = 3

-----------------------------------------------------------------------------
(* Service selections and greetings as users type or tap them *)

Svc8a == [id |-> "8a_service", name |-> "8A Form"]
Svc712 == [id |-> "712_service", name |-> "7/12 Form"]
SvcFerfar == [id |-> "ferfar_service", name |-> "Ferfar"]
SvcProperty == [id |-> "property_card_service", name |-> "Property Card"]

\* message records that select a service, each with the service it selects
Selections ==
    LET p == "919876543210"
        q == "919812345678"
        Sel(m, svc) == [m |-> m, svc |-> svc]
    IN  { Sel(TextMessage(p, <<"8", "a", "_", "s", "e", "r", "v", "i", "c", "e">>), Svc8a),
          Sel(TextMessage(p, <<" ", "8", "A", " ", "F", "o", "r", "m", " ">>), Svc8a),
          Sel(TextMessage(p, <<"7", "/", "1", "2">>), Svc712),
          Sel(TextMessage(p, <<"F", "e", "r", "f", "a", "r", "_", "S", "e", "r", "v", "i", "c", "e">>),
              SvcFerfar),
          Sel(TextMessage(p, <<"f", "e", "r", "f", "a", "r">>), SvcFerfar),
          Sel(TextMessage(p, <<" ", "P", "R", "O", "P", "E", "R", "T", "Y", " ">>), SvcProperty),
          Sel(TextMessage(p, <<"p", "r", "o", "p", "e", "r", "t", "y", "_", "c", "a", "r", "d",
                               "_", "s", "e", "r", "v", "i", "c", "e">>), SvcProperty),
          Sel(ButtonReply(p, <<"8", "a", "_", "s", "e", "r", "v", "i", "c", "e">>), Svc8a),
          Sel(ButtonReply(p, <<"p", "r", "o", "p", "e", "r", "t", "y", "_", "c", "a", "r", "d",
                               "_", "s", "e", "r", "v", "i", "c", "e">>), SvcProperty),
          Sel(ListReply(p, <<"7", "1", "2", "_", "s", "e", "r", "v", "i", "c", "e">>), Svc712),
          Sel(LegacyButton(p, <<"f", "e", "r", "f", "a", "r">>), SvcFerfar),
          Sel(ButtonReply(q, <<"7", "1", "2", "_", "s", "e", "r", "v", "i", "c", "e">>), Svc712) }

\* text messages that greet
Greetings ==
    { TextMessage("919876543210", <<"h", "i">>),
      TextMessage("919876543210", <<" ", "H", "e", "l", "l", "o", "\n">>),
      TextMessage("919876543210", <<"S", "T", "A", "R", "T">>),
      TextMessage("919812345678", <<"h", "i">>) }

IsFlowTrigger(x, p, svc) ==
    /\ x.to = p
    /\ x.message.type = "interactive"
    /\ x.message.interactive.type = "flow"
    /\ x.message.interactive.header.text = svc.name

\* the outcome of a selection: the user's single session names the service
\* at the given step, and one form trigger has gone out
Selected(sel, stepName) ==
    LET p == sel.m.from
    IN  /\ SessionCount(sessions, p) = 1
        /\ SessionOf(sessions, p).step = stepName
        /\ SessionOf(sessions, p).selectedService = sel.svc.id
        /\ SessionOf(sessions, p).serviceName = sel.svc.name
        /\ Len(sent) = 1
        /\ IsFlowTrigger(sent[1], p, sel.svc)

-----------------------------------------------------------------------------
(* C7 as stated: after a service selection (identifier or alias, any case, *)
(* surrounding whitespace) by user u, whatever step u was at, u's session  *)
(* has step awaiting_form_completion with the service's identifier and     *)
(* name, and exactly one form trigger has been sent to u.                  *)

C7_AsStated ==
    \A sel \in Selections :
        (req.kind = "webhook" /\ req.body = Single(sel.m)) => Selected(sel, "awaiting_form_completion")

(* C7: the same, with the step the session is actually given:              *)
(* awaiting_flow_completion.                                               *)

C7_SelectionStartsFlow ==
    \A sel \in Selections :
        (req.kind = "webhook" /\ req.body = Single(sel.m)) => Selected(sel, "awaiting_flow_completion")

\* a user whose payment had completed has selected a service again, typing
\* an alias in capitals between spaces
C7_Witness ==
    /\ req.kind = "webhook"
    /\ req.body = Single(TextMessage("919876543210", <<" ", "P", "R", "O", "P", "E", "R", "T", "Y", " ">>))
    /\ HasSession(sessions, "919876543210")
    /\ Has(SessionOf(sessions, "919876543210"), "completedAt")
    /\ SessionOf(sessions, "919876543210").step = "awaiting_flow_completion"
    /\ SessionOf(sessions, "919876543210").selectedService = "property_card_service"
    /\ Len(sent) = 1

-----------------------------------------------------------------------------
(* C8 as stated: selecting service A and then service B, nothing in        *)
(* between, leaves the user one session, with B's identifier and name, at  *)
(* step awaiting_form_completion, and nothing in it written by A.          *)

\* the session of the user after selecting b directly after a: one session,
\* naming b, at the given step, created and updated at b's time
Reselected(a, b, stepName) ==
    LET p == b.m.from
        s == SessionOf(sessions', p)
    IN  /\ SessionCount(sessions', p) = 1
        /\ s.selectedService = b.svc.id
        /\ s.serviceName = b.svc.name
        /\ s.step = stepName
        /\ s.createdAt = now
        /\ s.updatedAt = now
        /\ \A k \in DOMAIN s \ {"id", "createdAt", "updatedAt", "completedAt"} :
              s[k] # a.svc.id /\ s[k] # a.svc.name

\* a was selected at the event before by the user who now selects b
SelectedBefore(a, b) ==
    /\ a.m.from = b.m.from
    /\ a.svc # b.svc
    /\ req.body = Single(a.m)

C8_AsStated ==
    [][ (req.kind = "webhook" /\ req'.kind = "webhook")
        => \A b \in Selections :
              req'.body = Single(b.m)
              => \A a \in Selections :
                    SelectedBefore(a, b) => Reselected(a, b, "awaiting_form_completion") ]_vars

(* C8: selecting service A and then service B, nothing in between, leaves  *)
(* the user one session, with B's identifier and name, at step             *)
(* awaiting_flow_completion, created and updated at B's time; apart from   *)
(* the record's id, given when the session was first created, no field     *)
(* holds A's identifier or name.                                           *)

C8_SecondSelectionOverwrites ==
    [][ (req.kind = "webhook" /\ req'.kind = "webhook")
        => \A b \in Selections :
              req'.body = Single(b.m)
              => \A a \in Selections :
                    SelectedBefore(a, b) => Reselected(a, b, "awaiting_flow_completion") ]_vars

\* the 7/12 service was selected and then, at the next event, the ferfar one
C8_Witness ==
    /\ now = 2
    /\ req.kind = "webhook"
    /\ req.body = Single(TextMessage("919876543210", <<"f", "e", "r", "f", "a", "r">>))
    /\ Len(sessions) = 1
    /\ sessions[1].id = 1
    /\ sessions[1].selectedService = "ferfar_service"
    /\ sessions[1].createdAt = 1
    /\ users[1].createdAt = 0
    /\ orders = <<>>

-----------------------------------------------------------------------------
(* C9: a form submission of a user who has no session sends that user      *)
(* exactly one "session expired" message, adds no order and adds no        *)
(* session.                                                                *)

C9_NoSessionExpired ==
    [][ \A p \in Phones, j \in FormResponses :
          (req'.kind = "webhook" /\ req'.body = Single(FormReply(p, j)) /\ ~HasSession(sessions, p))
          => /\ Len(sent') = 1
             /\ IsTextTo(sent'[1], p, "Session expired. Please start over by sending \"hi\".")
             /\ orders' = orders
             /\ sessions' = sessions
      ]_vars

\* the second user submitted a form while only the first user had a session
C9_Witness ==
    /\ req.kind = "webhook"
    /\ req.body = Single(FormReply("919812345678", "{\"name\":\"John\"}"))
    /\ HasSession(sessions, "919876543210")
    /\ ~HasSession(sessions, "919812345678")
    /\ Len(sent) = 1
    /\ sent[1].to = "919812345678"
    /\ sent[1].message.type = "text"

-----------------------------------------------------------------------------
(* C10: a greeting (hi, hello, start; any case, surrounding whitespace)    *)
(* produces exactly one send, of the one welcome payload with the four     *)
(* service buttons, and leaves the sessions and the orders as they were.   *)

FourServiceButtons(message) ==
    /\ message.type = "interactive"
    /\ message.interactive.type = "button"
    /\ Len(message.interactive.action.buttons) = 4
    /\ {message.interactive.action.buttons[i].reply.id : i \in 1..4}
         = {"8a_service", "712_service", "ferfar_service", "property_card_service"}

C10_GreetingWelcomes ==
    [][ \A g \in Greetings :
          (req'.kind = "webhook" /\ req'.body = Single(g))
          => /\ Len(sent') = 1
             /\ sent'[1].to = g.from
             /\ FourServiceButtons(sent'[1].message)
             /\ sent'[1].message = welcomeMessage
             /\ sessions' = sessions
             /\ orders' = orders
      ]_vars

\* a user at step awaiting_payment has greeted in mixed case between
\* whitespace
C10_Witness ==
    /\ req.kind = "webhook"
    /\ req.body = Single(TextMessage("919876543210", <<" ", "H", "e", "l", "l", "o", "\n">>))
    /\ HasSession(sessions, "919876543210")
    /\ SessionOf(sessions, "919876543210").step = "awaiting_payment"
    /\ Len(orders) = 1
    /\ Len(sent) = 1

-----------------------------------------------------------------------------
(* C11: a text or selection id that is no greeting and no service keyword, *)
(* an empty or missing text body included, gets exactly one help message   *)
(* and no error message, and changes no session and no order.              *)

\* records that carry no greeting and no service keyword
UnknownRecords ==
    { TextMessage("919876543210", <<"h", "e", "l", "p">>),
      TextMessage("919876543210", <<>>),
      ListReply("919876543210", <<"o", "t", "h", "e", "r">>),
      [from |-> "919876543210", type |-> "text", text |-> [preview_url |-> FALSE]],
      [from |-> "919876543210", type |-> "text"] }

C11_UnknownDegradesToHelp ==
    [][ \A m \in UnknownRecords :
          (req'.kind = "webhook" /\ req'.body = Single(m))
          => /\ Len(sent') = 1
             /\ IsTextTo(sent'[1], m.from,
                         "I didn't understand that. Type \"hi\" to see available services.")
             /\ sessions' = sessions
             /\ orders' = orders
      ]_vars

-----------------------------------------------------------------------------
(* C12: every message record - text, button reply, list reply, form reply, *)
(* legacy button or any other shape, an interactive record without any of  *)
(* the three replies included - takes exactly one route: handleMessage     *)
(* for texts and selections, handleFlowCompletion for form submissions,    *)
(* the capability notice otherwise.                                        *)

\* handleMessage ran for m at this event: it stamps the user's lastSeen
WentToHandleMessage(m) ==
    LET ui == FindIndex(users', "whatsappId", m.from)
    IN  ui # 0 /\ users'[ui].lastSeen = now

\* handleFlowCompletion ran for m: it answers "expired" or the order summary
WentToHandleFlowCompletion(m) ==
    /\ Len(sent') >= 1
    /\ sent'[1].message.type = "text"
    /\ sent'[1].message.text.body.tpl \in
          {"Session expired. Please start over by sending \"hi\".",
           "Thank you for filling the form!"}

\* the capability notice went out for m
WentToNotice(m) ==
    /\ Len(sent') = 1
    /\ IsTextTo(sent'[1], m.from,
                "I can only process text messages and forms right now. Please send \"hi\" to start.")

RoutesTaken(m) ==
    {r \in {"handleMessage", "handleFlowCompletion", "notice"} :
        \/ r = "handleMessage" /\ WentToHandleMessage(m)
        \/ r = "handleFlowCompletion" /\ WentToHandleFlowCompletion(m)
        \/ r = "notice" /\ WentToNotice(m)}

RouteOf(m) ==
    IF m.type \in {"text", "button"} THEN {"handleMessage"}
    ELSE IF m.type = "interactive"
    THEN IF ~Has(m, "interactive") THEN {"notice"}
         ELSE IF Has(m.interactive, "nfm_reply") THEN {"handleFlowCompletion"}
         ELSE IF Has(m.interactive, "button_reply") /\ Has(m.interactive.button_reply, "id")
         THEN {"handleMessage"}
         ELSE IF Has(m.interactive, "list_reply") THEN {"handleMessage"}
         ELSE {"notice"}
    ELSE {"notice"}

C12_ExactlyOneRoute ==
    [][ \A m \in MessageRecords :
          (req'.kind = "webhook" /\ req'.body = Single(m)) => RoutesTaken(m) = RouteOf(m)
      ]_vars

-----------------------------------------------------------------------------
(* C13: when one record of a delivery fails - a null message, a message    *)
(* without its payload, a malformed status record - the other message      *)
(* records of the delivery, in the same change-set and in later ones, are  *)
(* still processed.                                                        *)

\* deliveries in which a failing record comes before a greeting of the
\* first user
FailingThenGreeting ==
    { Delivery([messages |-> Arr(<<Null, TextMessage("919876543210", <<"h", "i">>)>>)]),
      Delivery([messages |-> Arr(<<[from |-> "919876543210", type |-> "text"],
                                   TextMessage("919876543210", <<"h", "i">>)>>)]),
      [object |-> "whatsapp_business_account",
       entry |-> Arr(<< [id |-> "WABA",
                         changes |-> Arr(<< [field |-> "messages",
                                             value |-> [statuses |-> Arr(<<Null>>)]],
                                            [field |-> "messages",
                                             value |-> [messages |->
                                                 Arr(<<TextMessage("919876543210",
                                                                   <<"h", "i">>)>>)]] >>)] >>)] }

C13_SiblingsStillProcessed ==
    (req.kind = "webhook" /\ req.body \in FailingThenGreeting)
    => /\ Len(sent) = 1
       /\ sent[1].to = "919876543210"
       /\ FourServiceButtons(sent[1].message)
       /\ FindIndex(users, "whatsappId", "919876543210") # 0

-----------------------------------------------------------------------------
(* C14: a malformed webhook body - an empty object, no entry, an entry     *)
(* that is not a list - is acknowledged with 200 and has no other effect:  *)
(* no file is read or written and nothing is sent.                         *)

MalformedBodies ==
    { <<>>,
      [object |-> "whatsapp_business_account"],
      [entry |-> [id |-> "WABA"]],
      Null }

C14_MalformedBodyNoEffect ==
    [][ (req'.kind = "webhook" /\ req'.body \in MalformedBodies)
        => /\ resp' = <<[status |-> 200, body |-> [text |-> "EVENT_RECEIVED"]]>>
           /\ users' = users
           /\ orders' = orders
           /\ sessions' = sessions
           /\ sent' = <<>>
           /\ io' = 0
      ]_vars

\* with records on file, a body whose entry is an object has been acknowledged
C14_Witness ==
    /\ req.kind = "webhook"
    /\ req.body = [entry |-> [id |-> "WABA"]]
    /\ Len(users) > 0
    /\ Len(orders) > 0
    /\ Len(sessions) > 0
    /\ Len(resp) = 1
    /\ io = 0

-----------------------------------------------------------------------------
(* C15: getServiceAmount gives 500 for "8A Form", 300 for "7/12 Form",     *)
(* 400 for "Ferfar", 250 for "Property Card" and 100 for every other       *)
(* name, the absent name included; the result is always a number.          *)

PriceOf(serviceName) ==
    CASE serviceName = "8A Form" -> 500
      [] serviceName = "7/12 Form" -> 300
      [] serviceName = "Ferfar" -> 400
      [] serviceName = "Property Card" -> 250
      [] OTHER -> 100

\* ToString makes the comparison defined for results that are not numbers
C15_PriceTable ==
    \A i \in 1..Len(resp) :
        ToString(resp[i].amount) = ToString(PriceOf(resp[i].serviceName))

-----------------------------------------------------------------------------
(* C16: the amount of every order on file is the fixed price of its        *)
(* serviceType, and no request - payment success, payment failure, a later *)
(* webhook event - changes the amount of an order already on file.         *)

C16_AmountFixed ==
    [][ /\ \A i \in 1..Len(orders') :
              /\ orders'[i].serviceType \in DOMAIN FixedPrice
              /\ orders'[i].amount = FixedPrice[orders'[i].serviceType]
        /\ Len(orders') >= Len(orders)
        /\ \A i \in 1..Len(orders) :
              /\ orders'[i].orderId = orders[i].orderId
              /\ orders'[i].amount = orders[i].amount
      ]_vars

\* an order that was paid for and then reported failed still costs what
\* its service costs
C16_Witness ==
    /\ Len(orders) = 1
    /\ orders[1].status = "failed"
    /\ Has(orders[1], "completedAt")
    /\ Has(orders[1], "failedAt")
    /\ orders[1].serviceType = "8A Form"
    /\ orders[1].amount = 500

-----------------------------------------------------------------------------
(* C17: every form submission matched to a session leaves exactly one      *)
(* order, which stays on file from then on, also when deliveries and       *)
(* payment callbacks overlap: no order is lost to an interleaved           *)
(* read-modify-write and none is created twice.                            *)

C17_OrderPerSubmission ==
    \A i \in 1..Len(tasks) :
        (tasks[i].kind = "submit" /\ tasks[i].created # "")
        => Cardinality({k \in 1..Len(orders) : orders[k].orderId = tasks[i].created}) = 1

-----------------------------------------------------------------------------
(* C18: the sessions on file hold at most one session per user, also after *)
(* overlapping events of the same user.                                    *)

C18_OneSessionPerUser ==
    \A p \in Phones : SessionCount(sessions, p) <= 1

-----------------------------------------------------------------------------
(* C19: the step of a session moves only forward - none, awaiting form     *)
(* completion, awaiting_payment, completed - except that a selection       *)
(* resets it: a form submission never moves a session at awaiting_payment  *)
(* or completed to awaiting_payment, and a session never goes from         *)
(* awaiting form completion straight to completed.                         *)

StepOf(ss, p) == IF HasSession(ss, p) THEN SessionOf(ss, p).step ELSE "idle"

\* the step a selection writes, under the name the claim uses and under the
\* name the code uses
AwaitingForm == {"awaiting_form_completion", "awaiting_flow_completion"}

\* the session of p was put at awaiting_payment by this event
MovedToAwaitingPayment(p) ==
    /\ StepOf(sessions', p) = "awaiting_payment"
    /\ \/ StepOf(sessions, p) # "awaiting_payment"
       \/ SessionOf(sessions', p).orderId # SessionOf(sessions, p).orderId

\* deliveries that carry a selection and a form submission together take
\* two steps at once and are left aside
SelectionWithSubmission ==
    {Delivery([messages |-> Arr(<<ButtonReply(p, <<"8", "a", "_", "s", "e", "r", "v", "i", "c", "e">>),
                                  FormReply(p, "{}")>>)]) : p \in Phones}

C19_StepsForward ==
    [][ ~(req'.kind = "webhook" /\ req'.body \in SelectionWithSubmission)
        => \A p \in Phones :
              LET a == StepOf(sessions, p)
                  b == StepOf(sessions', p)
              IN  /\ MovedToAwaitingPayment(p) => a \in AwaitingForm
                  /\ (b = "completed" /\ a # "completed") => a = "awaiting_payment"
                  /\ b = "idle" => a = "idle"
                  /\ b \in AwaitingForm \cup {"idle", "awaiting_payment", "completed"}
      ]_vars

-----------------------------------------------------------------------------
(* C20: the failure callback always answers with the failure page.         *)
(* Without orderId, or with an orderId that matches no order, it changes   *)
(* nothing and sends nothing; with the orderId of an order on file it sets *)
(* status and paymentStatus to failed, stamps failedAt, and sends exactly  *)
(* one failure text to the owner of the order.                             *)

C20_FailureCallback ==
    [][ req'.kind = "failure"
        => /\ resp' = <<[status |-> 200, body |-> [html |-> "Payment Failed"]]>>
           /\ users' = users
           /\ sessions' = sessions
           /\ Len(orders') = Len(orders)
           /\ IF ~NoOrderId(req'.query) /\ HasOrder(orders, req'.query.orderId)
              THEN LET oi == FindIndex(orders, "orderId", req'.query.orderId)
                   IN  /\ orders'[oi].status = "failed"
                       /\ orders'[oi].paymentStatus = "failed"
                       /\ orders'[oi].failedAt = now
                       /\ orders'[oi].orderId = orders[oi].orderId
                       /\ orders'[oi].whatsappId = orders[oi].whatsappId
                       /\ orders'[oi].amount = orders[oi].amount
                       /\ \A k \in 1..Len(orders) : k # oi => orders'[k] = orders[k]
                       /\ Len(sent') = 1
                       /\ IsTextTo(sent'[1], orders[oi].whatsappId, "Payment failed for order")
                       /\ sent'[1].message.text.body.orderId = req'.query.orderId
              ELSE /\ orders' = orders
                   /\ sent' = <<>>
      ]_vars

\* a pending order has been reported failed and its owner told
C20_Witness ==
    /\ req.kind = "failure"
    /\ req.query = [orderId |-> "ORD_1"]
    /\ Len(orders) >= 1
    /\ orders[1].status = "failed"
    /\ ~Has(orders[1], "completedAt")
    /\ Len(sent) = 1
    /\ resp[1].status = 200

-----------------------------------------------------------------------------
(* C21: every run of handleSuccess or handleFailure ends with exactly one  *)
(* HTTP response; when a step of the success path throws, that response is *)
(* the one of the failure path: the request is not left unanswered, not    *)
(* answered twice, and the error does not reach the framework.             *)

FailurePage == [status |-> 200, body |-> [html |-> "Payment Failed"]]

\* the success path threw at its first step: req.body was undefined
SuccessPathThrew == req.kind = "success" /\ IsNull(req.body)

C21_OneResponse ==
    req.kind \in {"success", "failure"}
    => /\ Len(resp) = 1
       /\ SuccessPathThrew => resp[1] = FailurePage

\* a success callback for an order on file threw and was finished by the
\* failure path, which marked the order failed and told its owner
C21_Witness ==
    /\ SuccessPathThrew
    /\ Has(req.query, "orderId")
    /\ HasOrder(orders, req.query.orderId)
    /\ OrderOf(orders, req.query.orderId).status = "failed"
    /\ Len(sent) = 1
    /\ resp = <<FailurePage>>

-----------------------------------------------------------------------------
(* C22: a second success callback for the same orderId, directly after a   *)
(* first one that succeeded, leaves the order completed/captured and the   *)
(* owner's session at step completed, as they were; apart from the time    *)
(* stamps it changes nothing on file, and it sends one more confirmation.  *)

SuccessPage == [status |-> 200, body |-> [html |-> "Payment Successful"]]

\* a record without its time stamps
WithoutStamps(rec) == [k \in DOMAIN rec \ {"updatedAt", "completedAt"} |-> rec[k]]

C22_SecondSuccessIdempotent ==
    [][ (/\ req.kind = "success"
         /\ resp = <<SuccessPage>>
         /\ req'.kind = "success"
         /\ Has(req'.query, "orderId")
         /\ req'.query.orderId = req.query.orderId)
        => LET orderId == req.query.orderId
               owner == OrderOf(orders, orderId).whatsappId
           IN  /\ OrderOf(orders', orderId).status = "completed"
               /\ OrderOf(orders', orderId).paymentStatus = "captured"
               /\ HasSession(sessions', owner)
               /\ SessionOf(sessions', owner).step = "completed"
               /\ Len(orders') = Len(orders)
               /\ \A i \in 1..Len(orders) : WithoutStamps(orders'[i]) = WithoutStamps(orders[i])
               /\ Len(sessions') = Len(sessions)
               /\ \A i \in 1..Len(sessions) :
                     WithoutStamps(sessions'[i]) = WithoutStamps(sessions[i])
               /\ users' = users
               /\ Len(sent') = 1
               /\ IsTextTo(sent'[1], owner, "Payment Successful!")
      ]_vars

-----------------------------------------------------------------------------
(* C23: sendMessage never throws to its caller.  When axios.post fails - no *)
(* connection, an answer outside 2xx, the timeout - it returns a failure   *)
(* value; when the access token is missing or a placeholder it makes no    *)
(* request and returns a marker that carries the message it did not send.  *)

TokenMissingOrPlaceholder ==
    \/ ~Has(env, "WHATSAPP_ACCESS_TOKEN")
    \/ env.WHATSAPP_ACCESS_TOKEN \in {"", "your_whatsapp_access_token_here"}

C23_SendNeverThrows ==
    /\ Len(sent) = Len(resp)
    /\ \A i \in 1..Len(resp) :
          /\ ~resp[i].threw
          /\ TokenMissingOrPlaceholder
             => /\ ~sent[i].posted
                /\ Has(sent[i].returned, "would_send")
                /\ sent[i].returned.would_send = sent[i].message
    /\ (req.kind = "send" /\ req.net # "up")
       => /\ Has(sent[Len(sent)].returned, "error")
          /\ ~Has(sent[Len(sent)].returned, "messages")

\* with a live token, one send ran into the timeout and the next into a 401
C23_Witness ==
    /\ env = [WHATSAPP_ACCESS_TOKEN |-> "EAAB_live_token",
              WHATSAPP_PHONE_NUMBER_ID |-> "945940578601053"]
    /\ Len(sent) = 2
    /\ sent[1].posted /\ sent[1].result = "test_fallback" /\ sent[1].returned.error = "timeout"
    /\ sent[2].posted /\ sent[2].result = "test_fallback" /\ sent[2].returned.error = "http_401"
    /\ resp = <<[threw |-> FALSE], [threw |-> FALSE]>>

-----------------------------------------------------------------------------
(* C24: after a message record from sender s - a text, a button selection, *)
(* a form submission, a record of an unsupported type - has been handled,  *)
(* a user with identifier s is on file: created at this event if s had     *)
(* none, with last-seen stamped at this event otherwise.                   *)

HasUser(us, p) == FindIndex(us, "whatsappId", p) # 0
UserOf(us, p) == us[FindIndex(us, "whatsappId", p)]

\* well-formed records of the four kinds
InboundRecords ==
    { TextMessage("919876543210", <<"h", "i">>),
      TextMessage("919876543210", <<"h", "e", "l", "p">>),
      TextMessage("919812345678", <<"h", "i">>),
      ButtonReply("919876543210", <<"8", "a", "_", "s", "e", "r", "v", "i", "c", "e">>),
      ButtonReply("919812345678", <<"7", "1", "2", "_", "s", "e", "r", "v", "i", "c", "e">>),
      FormReply("919876543210", "{\"name\":\"John\"}"),
      FormReply("919812345678", "{\"name\":\"John\"}"),
      ImageMessage("919876543210") }

C24_SenderHasUser ==
    [][ \A m \in InboundRecords :
          (req'.kind = "webhook" /\ req'.body = Single(m))
          => /\ HasUser(users', m.from)
             /\ UserOf(users', m.from).lastSeen = now
             /\ UserOf(users', m.from).updatedAt = now
             /\ HasUser(users, m.from)
                => UserOf(users', m.from).createdAt = UserOf(users, m.from).createdAt
             /\ ~HasUser(users, m.from)
                => /\ Len(users') = Len(users) + 1
                   /\ UserOf(users', m.from).createdAt = now
      ]_vars

-----------------------------------------------------------------------------
(* C25: a user on file stays on file: no webhook event and no payment      *)
(* callback removes a user record, also when events of different users     *)
(* are handled at the same time.                                           *)

C25_UsersStay ==
    [][ \A p \in Phones : HasUser(users, p) => HasUser(users', p) ]_vars

-----------------------------------------------------------------------------
(* C26: handling a webhook event changes no field of an order that is      *)
(* already on file - status and paymentStatus of an order change only in   *)
(* handleSuccess and handleFailure - also when a form submission is        *)
(* handled at the same time as a payment callback.                         *)

\* this step was taken by the handler of a webhook event
StepOfWebhookHandler ==
    /\ Len(tasks') = Len(tasks)
    /\ \E i \in 1..Len(tasks) :
          tasks'[i] # tasks[i] /\ tasks[i].kind \in {"select", "submit"}

C26_WebhookLeavesOrders ==
    [][ StepOfWebhookHandler
        => \A k \in 1..Len(orders) :
              HasOrder(orders', orders[k].orderId)
              => OrderOf(orders', orders[k].orderId) = orders[k]
      ]_vars

-----------------------------------------------------------------------------
(* C27: handling a status update, an error notice or a message record of   *)
(* an unsupported type changes no session, no order and no user and        *)
(* touches no file; a status update or an error notice sends nothing, an   *)
(* unsupported record sends exactly one capability notice, to its sender.  *)

StatusAndErrorBodies ==
    { Delivery([statuses |-> Arr(<< [id |-> "wamid.1", status |-> "delivered"] >>)]),
      Delivery([statuses |-> Arr(<<Null>>)]),
      Delivery([errors |-> [code |-> 131047]]),
      Delivery([errors |-> Arr(<<Null>>)]) }

UnsupportedRecords == { ImageMessage("919876543210") }

C27_LogOrNoticeOnly ==
    [][ req'.kind = "webhook"
        => /\ req'.body \in StatusAndErrorBodies
              => /\ users' = users /\ orders' = orders /\ sessions' = sessions
                 /\ io' = 0
                 /\ sent' = <<>>
           /\ \A m \in UnsupportedRecords :
                 req'.body = Single(m)
                 => /\ users' = users /\ orders' = orders /\ sessions' = sessions
                    /\ io' = 0
                    /\ Len(sent') = 1
                    /\ IsTextTo(sent'[1], m.from,
                          "I can only process text messages and forms right now. Please send \"hi\" to start.")
      ]_vars

\* a user with an order on file has sent an image and got the notice
C27_Witness ==
    /\ req.kind = "webhook"
    /\ req.body = Single(ImageMessage("919876543210"))
    /\ HasUser(users, "919876543210")
    /\ HasSession(sessions, "919876543210")
    /\ Len(orders) > 0
    /\ Len(sent) = 1
    /\ io = 0

-----------------------------------------------------------------------------
(* C28: handleSuccess moves the session of the order's owner to step       *)
(* completed only when the owner has a session; when the owner has none,   *)
(* the success path adds no session record.                                *)

\* task i, a success callback, takes its createOrUpdateSession write now
SuccessWritesSession(i) ==
    /\ i <= Len(tasks')
    /\ tasks[i].kind = "success"
    /\ tasks[i].pc = "session.write"
    /\ tasks'[i].pc = "send"

C28_NoSessionCreatedBySuccess ==
    [][ \A i \in 1..Len(tasks) :
          SuccessWritesSession(i)
          => LET owner == tasks[i].held.whatsappId
             IN  /\ ~HasSession(sessions, owner) => ~HasSession(sessions', owner)
                 /\ HasSession(sessions, owner)
                    => SessionOf(sessions', owner).step = "completed"
      ]_vars

-----------------------------------------------------------------------------
(* C29: a form submission of a user who has a session stores the order and *)
(* updates the session before it sends anything; it then sends the summary *)
(* text and after it the payment link, the link also when the summary      *)
(* failed; whatever becomes of the two sends, the order stays on file as   *)
(* pending and the session at awaiting_payment.                            *)

C29_StoreThenSendTwice ==
    [][ \A p \in Phones, j \in FormResponses :
          (req'.kind = "webhook" /\ req'.body = Single(FormReply(p, j)) /\ HasSession(sessions, p))
          => LET order == orders'[Len(orders')]
             IN  /\ Len(sent') = 2
                 /\ IsTextTo(sent'[1], p, "Thank you for filling the form!")
                 /\ IsTextTo(sent'[2], p, "Payment Required")
                 /\ sent'[1].message.text.body.orderId = order.orderId
                 /\ sent'[2].message.text.body.orderId = order.orderId
                 /\ io' > 0
                 /\ sent'[1].io = io'
                 /\ sent'[2].io = io'
                 /\ Len(orders') = Len(orders) + 1
                 /\ order.status = "pending"
                 /\ order.paymentStatus = "pending"
                 /\ SessionOf(sessions', p).step = "awaiting_payment"
                 /\ SessionOf(sessions', p).orderId = order.orderId
      ]_vars

\* the summary was refused by the network, the payment link went through,
\* and the order and the session are on file
C29_Witness ==
    /\ req.kind = "webhook"
    /\ req.body = Single(FormReply("919876543210", "{\"name\":\"John\"}"))
    /\ req.net = "flaky"
    /\ Len(sent) = 2
    /\ sent[1].result = "test_fallback"
    /\ sent[2].result = "delivered"
    /\ Len(orders) = 1
    /\ orders[1].status = "pending"
    /\ SessionOf(sessions, "919876543210").step = "awaiting_payment"

-----------------------------------------------------------------------------
(* C30 as stated: when the form trigger of a service selection fails, it   *)
(* has been attempted exactly once, nothing else is sent for that event,   *)
(* and the session stays at awaiting_form_completion with the selected     *)
(* service; a form trigger is sent only for an event that carries a        *)
(* selection.                                                              *)

IsAnyFlowTrigger(x) ==
    x.message.type = "interactive" /\ x.message.interactive.type = "flow"

\* the only send of this event was the form trigger of sel, and it failed
TriggerFailedOnce(sel, stepName) ==
    LET p == sel.m.from
    IN  /\ Len(sent') = 1
        /\ IsFlowTrigger(sent'[1], p, sel.svc)
        /\ sent'[1].posted
        /\ sent'[1].result = "test_fallback"
        /\ SessionCount(sessions', p) = 1
        /\ SessionOf(sessions', p).step = stepName
        /\ SessionOf(sessions', p).selectedService = sel.svc.id
        /\ SessionOf(sessions', p).serviceName = sel.svc.name

\* this event carries a service selection
CarriesSelection ==
    /\ req'.kind = "webhook"
    /\ \/ req'.body \in SelectionWithSubmission
       \/ \E sel \in Selections : req'.body = Single(sel.m)

C30_AsStated ==
    [][ /\ req'.kind = "webhook"
           => \A sel \in Selections :
                 (req'.body = Single(sel.m) /\ req'.net = "down")
                 => TriggerFailedOnce(sel, "awaiting_form_completion")
        /\ (\E k \in 1..Len(sent') : IsAnyFlowTrigger(sent'[k])) => CarriesSelection
      ]_vars

(* C30: the same, with the step the session is actually given:             *)
(* awaiting_flow_completion.                                               *)

C30_NoRetry ==
    [][ /\ req'.kind = "webhook"
           => \A sel \in Selections :
                 (req'.body = Single(sel.m) /\ req'.net = "down")
                 => TriggerFailedOnce(sel, "awaiting_flow_completion")
        /\ (\E k \in 1..Len(sent') : IsAnyFlowTrigger(sent'[k])) => CarriesSelection
      ]_vars

\* a selection arrived while the network was down: its form trigger was
\* posted once, failed, and the session names the selected service
C30_Witness ==
    /\ req.kind = "webhook"
    /\ req.net = "down"
    /\ hasRealCredentials
    /\ \E sel \in Selections :
          /\ req.body = Single(sel.m)
          /\ Len(sent) = 1
          /\ IsFlowTrigger(sent[1], sel.m.from, sel.svc)
          /\ sent[1].posted
          /\ sent[1].result = "test_fallback"
          /\ SessionOf(sessions, sel.m.from).step = "awaiting_flow_completion"
          /\ SessionOf(sessions, sel.m.from).selectedService = sel.svc.id

-----------------------------------------------------------------------------
(* C31: handleWebhook acknowledges a delivery without waiting for the      *)
(* processing of its records: whenever the handler of a delivery writes to *)
(* storage or sends a message, the 200 response of that delivery has       *)
(* already been given.                                                     *)

\* the handler of task i has given its response: res.send is the handler's
\* last statement, so the handler is done
Acknowledged(i) == tasks[i].pc = "done"

\* this step of task i wrote a file or sent a message
WroteOrSent(i) ==
    /\ Len(tasks') = Len(tasks)
    /\ tasks'[i] # tasks[i]
    /\ (users' # users \/ orders' # orders \/ sessions' # sessions \/ sent' # sent)

C31_AcknowledgeThenProcess ==
    [][ \A i \in 1..Len(tasks) :
           (tasks[i].kind \in {"select", "submit"} /\ WroteOrSent(i))
           => Acknowledged(i)
      ]_vars

-----------------------------------------------------------------------------
(* C32: after a service selection restarts the flow for a user whose       *)
(* session referenced an order, the session no longer references that      *)
(* order: a session whose step is the one a selection writes carries no    *)
(* orderId.                                                                *)

C32_RestartDropsOrder ==
    \A k \in 1..Len(sessions) :
        sessions[k].step \in AwaitingForm => ~Has(sessions[k], "orderId")

-----------------------------------------------------------------------------
(* C33: a form submission whose response_json cannot be parsed is handled  *)
(* with empty form data: no error leaves the handling of the record (the   *)
(* delivery is answered 200 and nothing was thrown), and what is stored    *)
(* and sent is exactly what the parseable submission "{}" stores and       *)
(* sends - one new order with empty userData if the sender has a session,  *)
(* the expiry text and no order if not.                                    *)

Unparseable == "{name:"

C33_UnparseableIsEmpty ==
    [][ \A p \in Phones :
           (req'.kind = "webhook" /\ req'.body = Single(FormReply(p, Unparseable)))
           => LET empty == handleWebhook(World(users, orders, sessions, req'.net),
                                         Single(FormReply(p, "{}")))
              IN  /\ Unparseable \notin DOMAIN JsonObjects
                  /\ resp' = <<[status |-> 200, body |-> [text |-> EventReceived]]>>
                  /\ orders' = empty.orders
                  /\ sessions' = empty.sessions
                  /\ users' = empty.users
                  /\ sent' = empty.sent
                  /\ IF HasSession(sessions, p)
                     THEN /\ Len(orders') = Len(orders) + 1
                          /\ orders'[Len(orders')].userData = <<>>
                          /\ orders'[Len(orders')].whatsappId = p
                          /\ \A k \in 1..Len(orders) : orders'[k] = orders[k]
                     ELSE /\ orders' = orders
                          /\ Len(sent') = 1
                          /\ IsTextTo(sent'[1], p, ExpiredText.tpl)
      ]_vars

\* an unparseable submission of a user with a session has created an order
\* with empty form data
C33_Witness ==
    /\ req.kind = "webhook"
    /\ req.body = Single(FormReply("919876543210", Unparseable))
    /\ Len(orders) > 0
    /\ orders[Len(orders)].userData = <<>>
    /\ orders[Len(orders)].createdAt = now - 1
    /\ orders[Len(orders)].whatsappId = "919876543210"
    /\ SessionOf(sessions, "919876543210").orderId = orders[Len(orders)].orderId

-----------------------------------------------------------------------------
(* C34: the order created for a form submission carries the service of the *)
(* form trigger that the submission answers - the trigger whose flow_token *)
(* the submission returns - also when the user selected a different        *)
(* service after that trigger was sent and before submitting.              *)

ServiceNameOf(serviceId) ==
    (CHOOSE svc \in {Svc8a, Svc712, SvcFerfar, SvcProperty} : svc.id = serviceId).name

C34_OrderForAnsweredTrigger ==
    [][ req'.kind = "answer"
        => /\ Len(orders') = Len(orders) + 1
           /\ orders'[Len(orders')].whatsappId = req'.to
           /\ orders'[Len(orders')].userData.flow_token = req'.token
           /\ orders'[Len(orders')].serviceType = ServiceNameOf(req'.token[3])
      ]_vars

-----------------------------------------------------------------------------
(* C35: the status of an order only ever changes from pending to completed *)
(* or from pending to failed: an order that is completed never becomes     *)
(* failed and an order that is failed never becomes completed, whatever    *)
(* success and failure callbacks arrive.                                   *)

C35_StatusOnlyLeavesPending ==
    [][ \A k \in 1..Len(orders) :
           (HasOrder(orders', orders[k].orderId)
            /\ OrderOf(orders', orders[k].orderId).status # orders[k].status)
           => /\ orders[k].status = "pending"
              /\ OrderOf(orders', orders[k].orderId).status \in {"completed", "failed"}
      ]_vars

-----------------------------------------------------------------------------
(* C36: in every reachable state the pair (status, paymentStatus) of each  *)
(* order is (pending, pending), (completed, captured) or (failed, failed), *)
(* also when form submissions, success callbacks and failure callbacks are *)
(* handled at the same time.                                               *)

StatusPairs ==
    { <<"pending", "pending">>, <<"completed", "captured">>, <<"failed", "failed">> }

C36_StatusPairsAgree ==
    \A k \in 1..Len(orders) :
        <<orders[k].status, orders[k].paymentStatus>> \in StatusPairs

\* a success callback and a failure callback for the same order were handled
\* at the same time and have both been answered
C36_Witness ==
    /\ Len(tasks) = 2
    /\ \E i, j \in 1..Len(tasks) :
          /\ tasks[i].kind = "failure" /\ tasks[i].pc = "done"
          /\ tasks[j].kind = "success" /\ tasks[j].pc = "done"
    /\ \E k \in 1..Len(resp) : resp[k].body = [html |-> "Payment Failed"]
    /\ \E k \in 1..Len(resp) : resp[k].body = [html |-> "Payment Successful"]
    /\ HasOrder(orders, "ORD_1")
    /\ OrderOf(orders, "ORD_1").status = "completed"
    /\ Has(OrderOf(orders, "ORD_1"), "paymentId")
    /\ ~Has(OrderOf(orders, "ORD_1"), "failedAt")

-----------------------------------------------------------------------------
(* C37: whenever the step of a session is completed, the session's orderId *)
(* names an order on file that belongs to the same user and whose status   *)
(* is completed.                                                           *)

C37_CompletedSessionHasCompletedOrder ==
    \A k \in 1..Len(sessions) :
        sessions[k].step = "completed"
        => /\ Has(sessions[k], "orderId")
           /\ HasOrder(orders, sessions[k].orderId)
           /\ OrderOf(orders, sessions[k].orderId).whatsappId = sessions[k].whatsappId
           /\ OrderOf(orders, sessions[k].orderId).status = "completed"

-----------------------------------------------------------------------------
(* C38: verify never returns the challenge for a request that carries no   *)
(* hub.verify_token, also when the VERIFY_TOKEN secret is not configured:  *)
(* such a request is answered 403.                                         *)

C38_NoTokenNoChallenge ==
    req.kind = "verify" /\ ~Has(req.query, "hub.verify_token")
    => /\ Len(resp) = 1
       /\ resp[1].status = 403

-----------------------------------------------------------------------------
(* C39: the message records of one delivery are handled one at a time in   *)
(* payload order, the next one only after every storage access and every   *)
(* send of the one before: a delivery with a service selection followed by *)
(* a form submission of the same user leaves on file, and sends, what the  *)
(* two records leave and send when they arrive in two deliveries one after *)
(* the other, and the order it creates is for the service selected in the  *)
(* delivery.                                                               *)

\* to whom and what, without the outcome of the send
Messages(s) == [k \in 1..Len(s) |-> [to |-> s[k].to, message |-> s[k].message]]

SelectionThenSubmission(p) ==
    Delivery([messages |-> Arr(<<ButtonReply(p, Kw8aService), FormReply(p, "{}")>>)])

\* the delivery of this step left what first and then second leave
LeftAsOneAfterTheOther(p, first, second) ==
    LET order == orders'[Len(orders')]
    IN  /\ users' = second.users
        /\ orders' = second.orders
        /\ sessions' = second.sessions
        /\ Messages(sent') = Messages(first.sent \o second.sent)
        /\ Len(first.sent) = 1
        /\ sent'[1].io = first.io
        /\ sent'[Len(sent')].io = first.io + second.io
        /\ io' = first.io + second.io
        /\ second.io > 0
        /\ Len(orders') = Len(orders) + 1
        /\ order.whatsappId = p
        /\ order.serviceType = Svc8a.name
        /\ order.amount = FixedPrice[Svc8a.name]
        /\ SessionOf(sessions', p).orderId = order.orderId

C39_RecordsInPayloadOrder ==
    [][ \A p \in Phones :
           (req'.kind = "webhook" /\ req'.body = SelectionThenSubmission(p))
           => \A first \in {handleWebhook(World(users, orders, sessions, req'.net),
                                          Single(ButtonReply(p, Kw8aService)))} :
                 \A second \in {handleWebhook(World(first.users, first.orders,
                                                    first.sessions, req'.net),
                                              Single(FormReply(p, "{}")))} :
                    LeftAsOneAfterTheOther(p, first, second)
      ]_vars

\* the user had selected 7/12 and submitted; a delivery with a selection of
\* 8A followed by a submission has now created an order for the 8A form
C39_Witness ==
    /\ req.kind = "webhook"
    /\ req.body = SelectionThenSubmission("919876543210")
    /\ Len(orders) = 2
    /\ orders[1].serviceType = Svc712.name
    /\ orders[1].whatsappId = "919876543210"
    /\ orders[2].serviceType = Svc8a.name
    /\ orders[2].whatsappId = "919876543210"
    /\ orders[2].createdAt = now - 1
    /\ Len(sent) = 3
    /\ IsFlowTrigger(sent[1], "919876543210", Svc8a)

-----------------------------------------------------------------------------
(* C40: with fair scheduling and no other event for the user, a user who   *)
(* selects a service and submits the form, and for whose order a success   *)
(* callback arrives, eventually has that order with status completed and a *)
(* session with step completed; once the success callback has been         *)
(* answered the session is not at awaiting_payment.                        *)

\* the success callback of the journey has arrived / has been answered
CallbackArrived == Len(tasks) = Len(Journey)
CallbackAnswered == CallbackArrived /\ tasks[Len(tasks)].pc = "done"

\* the order of the journey is completed and the user's session is completed
JourneyCompleted ==
    /\ CallbackArrived
    /\ HasOrder(orders, tasks[Len(tasks)].arg)
    /\ OrderOf(orders, tasks[Len(tasks)].arg).status = "completed"
    /\ HasSession(sessions, JourneyUser)
    /\ SessionOf(sessions, JourneyUser).step = "completed"

C40_PaidJourneyCompletes ==
    /\ CallbackArrived ~> JourneyCompleted
    /\ [](CallbackAnswered => StepOf(sessions, JourneyUser) # "awaiting_payment")
====
